---- MODULE Spec2Model ----
(***************************************************************************)
(* Model of the alarmdecoder status aggregator and message pipeline:       *)
(* alarmdecoder/status/updater.py, alarmdecoder/decoder.py,                *)
(* alarmdecoder/messages/parser.py and alarmdecoder/event/wiring.py; of    *)
(* the transport devices, alarmdecoder/devices/serial_device.py and        *)
(* socket_device.py; and of the firmware upload, alarmdecoder/util/        *)
(* firmware.py and bin/ad2_firmwareupload.py.                              *)
(*                                                                         *)
(* Python values are modelled as follows.  An object attribute that was    *)
(* never assigned is absent from the object's attribute set, and reading   *)
(* it raises AttributeError.  Booleans are TLA+ booleans; event payloads   *)
(* are strings ("True", "False", "None", "message", "-" for no payload).   *)
(***************************************************************************)
EXTENDS Integers, Sequences, FiniteSets, TLC

(***************************************************************************)
(* Bounds                                                                  *)
(***************************************************************************)
\* largest number of AlarmDecoder.open calls in a behaviour
MaxOpens == 2
\* number of nested Event.fire calls the interpreter's stack admits: a fire
\* nested deeper raises RecursionError
MaxNesting == 1
\* largest clock value of a behaviour, in seconds
MaxTime == 47
\* largest number of handlers a caller subscribes to one event
MaxUserSubs == 2

(***************************************************************************)
(* Lines and messages                                                      *)
(***************************************************************************)
\* The substrings parse_panel searches for.  A panel text is modelled as
\* the sequence of these tokens it contains.
Words ==
  {"READY", "AWAY", "STAY", "CHIME", "BYPASS", "AC LOSS", "BAT", "FIRE", "ALARM"}

\* body of the line "!READY STAY CHIME BAT"
ScenarioText == <<"READY", "STAY", "CHIME", "BAT">>

\* a text naming both arming modes
BothModesText == <<"AWAY", "STAY">>

\* a text reporting several troubles at once
TroubleText == <<"AC LOSS", "BAT", "FIRE", "ALARM">>

\* the bodies of the panel lines fed to the decoder: the empty body, every
\* body with one token, and the three bodies above
PanelTexts ==
  {<<>>} \cup {<<w>> : w \in Words} \cup {ScenarioText, BothModesText, TroubleText}

\* A line is its prefix, the search tokens of its body, the number of
\* comma-separated fields of its body and whether the body contains the
\* five-field Contact-ID digit pattern.
Line(p, t, n, c) == [prefix |-> p, text |-> t, nfields |-> n, cid |-> c]

PanelLines == {Line("!", t, 1, FALSE) : t \in PanelTexts}

OtherLines ==
  { Line("!AUI:", <<>>, 3, FALSE), Line("!AUI:", <<>>, 4, FALSE),
    Line("!EXP:", <<>>, 3, FALSE), Line("!REL:", <<>>, 3, FALSE),
    Line("!RFX:", <<>>, 2, FALSE), Line("!RFX:", <<>>, 5, FALSE),
    Line("!CID:", <<>>, 5, TRUE),  Line("!CID:", <<>>, 1, FALSE),
    Line("!LRR:", <<>>, 1, FALSE), Line("", <<>>, 1, FALSE) }

Lines == PanelLines \cup OtherLines

\* "TOKEN" in text
InText(tok, text) == \E i \in 1..Len(text) : text[i] = tok

\* Every message has the same record shape; family tells which Python class
\* it is, and MsgAttrs which attributes an object of that class has.
NoMessage ==
  [family |-> "none", ready |-> FALSE, armed_away |-> FALSE, armed_home |-> FALSE,
   chime_on |-> FALSE, ac_power |-> FALSE, alarm_event_occurred |-> FALSE,
   battery_low |-> FALSE, fire_alarm |-> FALSE, zone_bypassed |-> FALSE, type |-> "None",
   mask |-> "None"]

PanelMessage(text) ==
  [family |-> "panel",
   ready |-> InText("READY", text),
   armed_away |-> InText("AWAY", text),
   armed_home |-> InText("STAY", text),
   chime_on |-> InText("CHIME", text),
   ac_power |-> ~InText("AC LOSS", text),
   alarm_event_occurred |-> InText("ALARM", text),
   battery_low |-> InText("BAT", text),
   fire_alarm |-> InText("FIRE", text),
   zone_bypassed |-> InText("BYPASS", text),
   type |-> "None",
   mask |-> "None"]

\* parse_panel: strips the leading "!" and derives every flag by substring
\* search over the rest of the line.  The flags no updater reads
\* (alarm_sounding, bypass, check_zone, programming_mode, system_fault) are
\* left out of the record.  No mask is assigned: PanelMessage.mask keeps its
\* default, None.
parse_panel(line) == PanelMessage(line.text)

\* ExpanderMessage(data): header "!EXP" gives type ZONE, "!REL" type RELAY
ExpanderMessage(t) == [NoMessage EXCEPT !.family = "expander", !.type = t]
RFMessage == [NoMessage EXCEPT !.family = "rf"]
LRRMessage == [NoMessage EXCEPT !.family = "lrr"]
AUIMessage == [NoMessage EXCEPT !.family = "aui"]

\* BaseMessage(data): __init__ assigns nothing; raw and timestamp are class
\* attributes
BaseMessage == [NoMessage EXCEPT !.family = "base"]

\* result of a failed parse (InvalidMessageError)
DecodeFailure == [NoMessage EXCEPT !.family = "invalid"]

\* parse_message: classification by literal prefix.
\*  "!AUI:" parse_aui needs 3 fields and AUIMessage._parse_message 4;
\*  "!EXP:" parse_expander passes raw= to ExpanderMessage.__init__, which has
\*          no such parameter: the TypeError is wrapped in InvalidMessageError;
\*  "!RFX:" parse_rf needs 5 fields and RFMessage._parse_message unpacks
\*          exactly 2: no line satisfies both;
\*  "!CID:" needs the five-field digit pattern; "!LRR:" always parses;
\*  any other line starting with "!" (also "!REL:") is a panel message.
parse_message(line) ==
  CASE line.prefix = "!AUI:" -> IF line.nfields >= 4 THEN AUIMessage ELSE DecodeFailure
    [] line.prefix = "!EXP:" -> DecodeFailure
    [] line.prefix = "!RFX:" -> DecodeFailure
    [] line.prefix = "!CID:" -> IF line.cid THEN LRRMessage ELSE DecodeFailure
    [] line.prefix = "!LRR:" -> LRRMessage
    [] line.prefix \in {"!", "!REL:"} -> parse_panel(line)
    [] OTHER -> DecodeFailure

PanelFlags ==
  {"ready", "armed_away", "armed_home", "chime_on", "ac_power",
   "alarm_event_occurred", "battery_low", "fire_alarm", "zone_bypassed"}

\* attributes of a message object that the updaters look for
MsgAttrs(m) ==
  CASE m.family = "panel" -> PanelFlags \cup {"mask"}
    [] m.family = "base" -> {"raw", "timestamp"}
    [] m.family = "expander" -> {"address", "type", "channel", "value"}
    [] m.family = "rf" -> {"serial_number", "value", "battery", "supervision", "loop"}
    [] m.family = "lrr" -> {"event_type", "partition"}
    [] m.family = "aui" -> {"aui_id", "msg_type", "line", "text", "value"}
    [] OTHER -> {}

HasAttr(m, a) == a \in MsgAttrs(m)

(***************************************************************************)
(* The parser on the characters of a line                                  *)
(*                                                                         *)
(* A Python string is the sequence of its characters, each a one-character *)
(* string.  The lines handed to the parser are written with the characters *)
(* "0".."9", "A".."Z", "a", "x", "!", ":", "," and " ".                    *)
(***************************************************************************)
\* largest number of status words in the body of a generated panel line
MaxTokens == 2
\* largest number of comma-separated fields of a generated expander line
MaxFields == 3
\* largest value of a generated RF line
MaxRfValue == 65535

DecimalDigits == {"0", "1", "2", "3", "4", "5", "6", "7", "8", "9"}
HexDigits == DecimalDigits \cup {"A", "B", "C", "D", "E", "F", "a", "b", "c", "d", "e", "f"}

\* the value of one digit
DigitValue(ch) ==
  CASE ch = "0" -> 0 [] ch = "1" -> 1 [] ch = "2" -> 2 [] ch = "3" -> 3
    [] ch = "4" -> 4 [] ch = "5" -> 5 [] ch = "6" -> 6 [] ch = "7" -> 7
    [] ch = "8" -> 8 [] ch = "9" -> 9
    [] ch \in {"A", "a"} -> 10 [] ch \in {"B", "b"} -> 11 [] ch \in {"C", "c"} -> 12
    [] ch \in {"D", "d"} -> 13 [] ch \in {"E", "e"} -> 14 [] ch \in {"F", "f"} -> 15

\* the characters of the words parse_panel searches for
Spell(w) ==
  CASE w = "ALARM" -> <<"A", "L", "A", "R", "M">>
    [] w = "SOUND" -> <<"S", "O", "U", "N", "D">>
    [] w = "READY" -> <<"R", "E", "A", "D", "Y">>
    [] w = "AWAY" -> <<"A", "W", "A", "Y">>
    [] w = "STAY" -> <<"S", "T", "A", "Y">>
    [] w = "CHIME" -> <<"C", "H", "I", "M", "E">>
    [] w = "BYPASS" -> <<"B", "Y", "P", "A", "S", "S">>
    [] w = "AC LOSS" -> <<"A", "C", " ", "L", "O", "S", "S">>
    [] w = "BAT" -> <<"B", "A", "T">>
    [] w = "FIRE" -> <<"F", "I", "R", "E">>
    [] w = "CHECK" -> <<"C", "H", "E", "C", "K">>
    [] w = "PROGRAM" -> <<"P", "R", "O", "G", "R", "A", "M">>
    [] w = "FAULT" -> <<"F", "A", "U", "L", "T">>

\* data.startswith(prefix)
startswith(data, prefix) ==
  Len(data) >= Len(prefix) /\ SubSeq(data, 1, Len(prefix)) = prefix

\* sub in text
Substring(sub, text) ==
  \E i \in 0..(Len(text) - Len(sub)) : SubSeq(text, i + 1, i + Len(sub)) = sub

\* data.strip()
strip(data) ==
  LET kept == {i \in 1..Len(data) : data[i] # " "}
  IN  IF kept = {} THEN <<>>
      ELSE SubSeq(data, CHOOSE i \in kept : \A j \in kept : i <= j,
                        CHOOSE i \in kept : \A j \in kept : i >= j)

\* data[n:]
Slice(data, n) == SubSeq(data, n + 1, Len(data))

\* data.split(sep) for a one-character separator
RECURSIVE split(_, _)
split(data, sep) ==
  LET at == {i \in 1..Len(data) : data[i] = sep}
  IN  IF at = {} THEN <<data>>
      ELSE LET i == CHOOSE k \in at : \A j \in at : k <= j
           IN  <<SubSeq(data, 1, i - 1)>> \o split(Slice(data, i), sep)

\* int(text, base) strips the blanks around text, then reads an optional
\* sign, for base 16 an optional "0x" or "0X", which one "_" may follow,
\* and the digits, between any two of which one "_" may stand: the digits
\* and underscores that are left of text after blanks, sign and prefix
NumeralBody(text, base) ==
  LET t == strip(text)
      u == IF t # <<>> /\ t[1] \in {"+", "-"} THEN Tail(t) ELSE t
  IN  IF base = 16 /\ Len(u) >= 2 /\ u[1] = "0" /\ u[2] \in {"x", "X"}
      THEN IF Len(u) >= 3 /\ u[3] = "_" THEN Slice(u, 3) ELSE Slice(u, 2)
      ELSE u

\* int(text, base) raises ValueError unless text is a numeral of the base
IsNumeral(text, base) ==
  LET d == NumeralBody(text, base)
  IN  /\ d # <<>>
      /\ \A i \in 1..Len(d) : d[i] = "_" \/ (d[i] \in HexDigits /\ DigitValue(d[i]) < base)
      /\ d[1] # "_" /\ d[Len(d)] # "_"
      /\ \A i \in 1..(Len(d) - 1) : ~(d[i] = "_" /\ d[i + 1] = "_")

\* the number written by a sequence of digits
RECURSIVE DigitsValue(_, _)
DigitsValue(digits, base) ==
  IF digits = <<>> THEN 0
  ELSE DigitsValue(SubSeq(digits, 1, Len(digits) - 1), base) * base
       + DigitValue(digits[Len(digits)])

\* int(text, base) of a numeral
int(text, base) ==
  LET magnitude == DigitsValue(SelectSeq(NumeralBody(text, base), LAMBDA ch : ch # "_"), base)
  IN  IF strip(text)[1] = "-" THEN 0 - magnitude ELSE magnitude

\* x & y: the bits of a negative x are those of its two's complement; y is
\* not negative
RECURSIVE BitAnd(_, _)
BitAnd(x, y) ==
  IF x = 0 \/ y = 0 THEN 0
  ELSE (x % 2) * (y % 2) + 2 * BitAnd(x \div 2, y \div 2)

\* nothing was returned yet
NotParsed == [class |-> "none"]

\* raise InvalidMessageError(f"{message}: {data}")
InvalidMessageError(message) == [class |-> "InvalidMessageError", error |-> message]

\* a line not yet handed to the parser; tokens and value say what the line
\* was generated from, previous is the result of an earlier parse of it
Unparsed(data, tokens, value) ==
  [data |-> data, tokens |-> tokens, value |-> value, result |-> NotParsed,
   previous |-> NotParsed]

\* parse_panel on the characters of the line
parse_panel_flipped_ac(data) ==
  LET text == Slice(strip(data), 1)
  IN  [class |-> "PanelMessage", text |-> text,
       alarm_event_occurred |-> Substring(Spell("ALARM"), text),
       alarm_sounding |-> Substring(Spell("SOUND"), text),
       ready |-> Substring(Spell("READY"), text),
       armed_away |-> Substring(Spell("AWAY"), text),
       armed_home |-> Substring(Spell("STAY"), text),
       chime_on |-> Substring(Spell("CHIME"), text),
       bypass |-> Substring(Spell("BYPASS"), text),
       ac_power |-> Substring(Spell("AC LOSS"), text),
       battery_low |-> Substring(Spell("BAT"), text),
       fire_alarm |-> Substring(Spell("FIRE"), text),
       check_zone |-> Substring(Spell("CHECK"), text),
       programming_mode |-> Substring(Spell("PROGRAM"), text),
       system_fault |-> Substring(Spell("FAULT"), text),
       zone_bypassed |-> Substring(Spell("BYPASS"), text)]
parse_panel_data(data) ==
  LET text == Slice(strip(data), 1)
  IN  [class |-> "PanelMessage", text |-> text,
       alarm_event_occurred |-> Substring(Spell("ALARM"), text),
       alarm_sounding |-> Substring(Spell("SOUND"), text),
       ready |-> Substring(Spell("READY"), text),
       armed_away |-> Substring(Spell("AWAY"), text),
       armed_home |-> Substring(Spell("STAY"), text),
       chime_on |-> Substring(Spell("CHIME"), text),
       bypass |-> Substring(Spell("BYPASS"), text),
       ac_power |-> ~Substring(Spell("AC LOSS"), text),
       battery_low |-> Substring(Spell("BAT"), text),
       fire_alarm |-> Substring(Spell("FIRE"), text),
       check_zone |-> Substring(Spell("CHECK"), text),
       programming_mode |-> Substring(Spell("PROGRAM"), text),
       system_fault |-> Substring(Spell("FAULT"), text),
       zone_bypassed |-> Substring(Spell("BYPASS"), text)]

\* parse_lrr: LRRMessage(raw=data), nothing is extracted
parse_lrr(data) == [class |-> "LRRMessage"]

\* re.search(r"(\d{3}),(\d),(\d{2}),(\d{3}),(\d)", data): "d" stands for \d
CidPattern ==
  <<"d", "d", "d", ",", "d", ",", "d", "d", ",", "d", "d", "d", ",", "d">>

\* the pattern matches the characters of data that follow the first i
CidMatchAt(data, i) ==
  /\ i + Len(CidPattern) <= Len(data)
  /\ \A k \in 1..Len(CidPattern) :
       IF CidPattern[k] = "d" THEN data[i + k] \in DecimalDigits
       ELSE data[i + k] = CidPattern[k]

\* parse_ademco_cid: the leftmost occurrence of the pattern anywhere in the
\* line gives the five groups; no occurrence is an InvalidMessageError
parse_ademco_cid(data) ==
  LET at == {i \in 0..Len(data) : CidMatchAt(data, i)}
  IN  IF at = {} THEN InvalidMessageError("Could not parse ADEMCO CID")
      ELSE LET i == CHOOSE k \in at : \A j \in at : k <= j
           IN  [class |-> "ADEMCOContactID",
                code |-> SubSeq(data, i + 1, i + 3),
                qualifier |-> SubSeq(data, i + 5, i + 5),
                group |-> SubSeq(data, i + 7, i + 8),
                zone |-> SubSeq(data, i + 10, i + 12),
                partition |-> SubSeq(data, i + 14, i + 14)]

\* ExpanderMessage(data): "if data:" leaves every field of an empty text at
\* None; _parse_message wants one ":" and three integer fields, and the
\* header gives the type, ZONE = 0 for "!EXP" and RELAY = 1 for "!REL"
ExpanderMessage_parse_message(data) ==
  LET halves == split(data, ":")
      fields == split(halves[2], ",")
  IN  IF data = <<>>
      THEN [class |-> "ExpanderMessage", address |-> "None", type |-> "None",
            channel |-> "None", value |-> "None"]
      ELSE IF Len(halves) # 2 \/ Len(fields) # 3
              \/ \E k \in 1..3 : ~IsNumeral(fields[k], 10)
      THEN InvalidMessageError("Received invalid expander message")
      ELSE IF halves[1] \notin {<<"!", "E", "X", "P">>, <<"!", "R", "E", "L">>}
      THEN InvalidMessageError("Unknown expander message header")
      ELSE [class |-> "ExpanderMessage",
            address |-> int(fields[1], 10),
            type |-> IF halves[1] = <<"!", "E", "X", "P">> THEN 0 ELSE 1,
            channel |-> int(fields[2], 10),
            value |-> int(fields[3], 10)]

\* parse_expander: at least three fields, int() of the first three where
\* they are not blank, then ExpanderMessage(raw=data, ...), whose __init__
\* has no parameter raw: the TypeError, like a ValueError of int(), is
\* wrapped in InvalidMessageError
parse_expander(data) ==
  LET parts == split(Slice(strip(data), 5), ",")
  IN  IF Len(parts) < 3
      THEN InvalidMessageError("Expander message format invalid (expected at least 3 parts)")
      ELSE InvalidMessageError("Failed to parse expander message")

\* is_bit_set(b): value & (1 << (b - 1)) > 0
is_bit_set_from_zero(value, b) == BitAnd(value, 2^b) > 0
is_bit_set(value, b) == BitAnd(value, 2^(b - 1)) > 0

\* RFMessage(raw=data): "if self.raw:" leaves the fields of an empty text
\* at their defaults; _parse_message wants one ":" and exactly two fields,
\* the second a hexadecimal numeral.  loop[k] of the code is loop[k + 1] here.
RFMessage_parse_message(data) ==
  LET halves == split(data, ":")
      fields == split(halves[2], ",")
  IN  IF data = <<>>
      THEN [class |-> "RFMessage", serial_number |-> "None", value |-> "None",
            battery |-> "None", supervision |-> "None",
            loop |-> <<FALSE, FALSE, FALSE, FALSE>>]
      ELSE IF Len(halves) # 2 \/ Len(fields) # 2 \/ ~IsNumeral(fields[2], 16)
      THEN InvalidMessageError("Received invalid RF message")
      ELSE LET value == int(fields[2], 16)
           IN  [class |-> "RFMessage", serial_number |-> fields[1], value |-> value,
                battery |-> is_bit_set(value, 2),
                supervision |-> is_bit_set(value, 3),
                loop |-> <<is_bit_set(value, 8), is_bit_set(value, 6),
                           is_bit_set(value, 5), is_bit_set(value, 7)>>]

\* parse_rf: at least five fields, int() of the fifth where it is not
\* blank, then RFMessage(raw=data, ...), whose __post_init__ parses raw again
\* and overwrites every field
parse_rf(data) ==
  LET parts == split(Slice(strip(data), 5), ",")
  IN  IF Len(parts) < 5
      THEN InvalidMessageError("RF message format invalid (expected 5 parts)")
      ELSE IF strip(parts[5]) # <<>> /\ ~IsNumeral(strip(parts[5]), 10)
      THEN InvalidMessageError("Failed to parse RF message")
      ELSE RFMessage_parse_message(data)

\* parse_aui: the line starts with "!AUI:" and has at least three fields,
\* then AUIMessage(data), whose _parse_message needs four; the fields are
\* those parse_aui split off
parse_aui(data) ==
  LET parts == split(Slice(strip(data), 5), ",")
  IN  IF ~startswith(data, <<"!", "A", "U", "I", ":">>)
      THEN InvalidMessageError("AUI message must start with '!AUI:'")
      ELSE IF Len(parts) < 3
      THEN InvalidMessageError("AUI message format invalid (expected at least 3 parts)")
      ELSE IF Len(split(data, ",")) < 4
      THEN InvalidMessageError("Unable to parse AUI message. Invalid data")
      ELSE [class |-> "AUIMessage", aui_id |-> parts[1], msg_type |-> parts[2],
            line |-> parts[3], text |-> parts[4], value |-> data]

\* parse_message on the characters of the line: the first prefix that the
\* line starts with selects the parser
parse_message_data(data) ==
  IF startswith(data, <<"!", "A", "U", "I", ":">>) THEN parse_aui(data)
  ELSE IF startswith(data, <<"!", "E", "X", "P", ":">>) THEN parse_expander(data)
  ELSE IF startswith(data, <<"!", "R", "F", "X", ":">>) THEN parse_rf(data)
  ELSE IF startswith(data, <<"!", "C", "I", "D", ":">>) THEN parse_ademco_cid(data)
  ELSE IF startswith(data, <<"!", "L", "R", "R", ":">>) THEN parse_lrr(data)
  ELSE IF startswith(data, <<"!">>) THEN parse_panel_data(data)
  ELSE InvalidMessageError("Unknown message format")

(***************************************************************************)
(* Transport devices                                                       *)
(*                                                                         *)
(* A bytes object is the sequence of its byte values.  The transport of a  *)
(* call is the bytes it delivers (its feed) and what follows them (its     *)
(* tail): nothing ("idle"), an endless stream of bytes without a line      *)
(* terminator ("stream"), or an error raised by the underlying serial port *)
(* or socket.  read_line waits in select.select between its turns and      *)
(* holds no lock: it is followed from wait to wait, and a second caller of *)
(* read_line on the same device can run between any two of its turns.      *)
(***************************************************************************)
\* largest number of bytes of a generated feed
MaxWire == 2
\* number of bytes of an endless stream that are followed
StreamBytes == 2
\* largest number of bytes one recv returns
MaxChunk == 2

\* "\r", "\n", a control byte, "a", DEL and 0xC8, which starts no UTF-8
\* sequence that a byte of this set continues
Bytes == {13, 10, 7, 97, 127, 200}

\* b"testing\r\n"
TestingWire == <<116, 101, 115, 116, 105, 110, 103, 13, 10>>

\* the character of a byte; control characters are written by name
Chr(b) ==
  CASE b = 97 -> "a" [] b = 116 -> "t" [] b = 101 -> "e" [] b = 115 -> "s"
    [] b = 105 -> "i" [] b = 110 -> "n" [] b = 103 -> "g"
    [] b = 13 -> "CR" [] b = 10 -> "LF" [] b = 7 -> "BEL" [] b = 127 -> "DEL"
    [] b >= 128 -> "U+FFFD"

\* buf.decode("utf-8") does not raise UnicodeDecodeError
Decodable(buf) == \A i \in 1..Len(buf) : buf[i] < 128

\* buf.decode("utf-8", errors="replace"), which is buf.decode("utf-8") for
\* the buffers that are Decodable
decode(buf) == [i \in 1..Len(buf) |-> Chr(buf[i])]

\* filter_ad2prot_byte: keeps the bytes from 0x20 on other than 0x7F
filter_ad2prot_byte(buf) == SelectSeq(buf, LAMBDA b : b >= 32 /\ b # 127)

\* buf.rstrip(chars)
RECURSIVE rstrip(_, _)
rstrip(buf, chars) ==
  IF buf # <<>> /\ buf[Len(buf)] \in chars
  THEN rstrip(SubSeq(buf, 1, Len(buf) - 1), chars)
  ELSE buf

\* buf.index(b"\n"), 0 standing for ValueError; positions count from 1
index_newline(buf) ==
  LET at == {i \in 1..Len(buf) : buf[i] = 10}
  IN  IF at = {} THEN 0 ELSE CHOOSE i \in at : \A j \in at : i <= j

\* the device classes and the errors their transports raise
DeviceKinds == {"serial", "socket"}
Tails(kind) ==
  IF kind = "serial" THEN {"idle", "stream", "OSError", "SerialException"}
  ELSE {"idle", "stream", "OSError", "closed"}

\* a caller of read_line: where it is ("none" before or after its call,
\* "select" while it waits in select.select, "recv" between the return of
\* select and its read, all with _buffer as the turns so far left it and
\* without a lock), whether it passed a
\* timeout, how its call ended and the line returned
Caller(pos, timed, outcome, value) ==
  [pos |-> pos, timed |-> timed, outcome |-> outcome, value |-> value]

\* no second caller
NoCaller == Caller("none", FALSE, "none", <<>>)

\* SerialDevice.__init__ / SocketDevice.__init__: interface says whether a
\* serial port name was given; the socket's _device is None until open.
\* _buffer is empty (Device.__init__ for the socket device).  The rest
\* describes the call under consideration: its transport (feed, arrived,
\* tail, chunk), the bytes of the feed read so far (got), where the call is
\* (pos) and a second caller of read_line on the same device (other).
NewDevice(kind, interface) ==
  [kind |-> kind, interface |-> interface, device |-> kind = "serial",
   running |-> FALSE, buffer |-> <<>>, pre_buffer |-> <<>>, pre_running |-> FALSE,
   call |-> "none", pos |-> "none", outcome |-> "none", value |-> <<>>,
   feed |-> <<>>, arrived |-> 0, got |-> 0, chunk |-> 1, timed |-> FALSE,
   tail |-> "idle", events |-> <<>>, other |-> NoCaller]

\* no device is under consideration
NoDevice == NewDevice("none", FALSE)

\* the result of one call on device d: its outcome ("returned", the name of
\* the exception raised, or "blocked" for a call that never returns), the
\* value returned, the buffer left and the device events fired
Outcome(d, call, outcome, value, buffer, events) ==
  [d EXCEPT !.call = call, !.outcome = outcome, !.value = value, !.buffer = buffer,
            !.pre_buffer = d.buffer, !.pre_running = d.running, !.events = events]

\* what a stretch of read_line between two waits leaves: the place of the
\* caller, the result of its call if it ended, _buffer and the events fired
Turn(pos, outcome, value, buffer, events) ==
  [pos |-> pos, outcome |-> outcome, value |-> value, buffer |-> buffer, events |-> events]

\* buffer[:line_end].rstrip(b"\r") and buffer[line_end+1:], with on_read
TakeLine(buffer) ==
  LET at == index_newline(buffer)
  IN  Turn("none", "returned", decode(rstrip(SubSeq(buffer, 1, at - 1), {13})),
           SubSeq(buffer, at + 1, Len(buffer)), <<"on_read">>)

\* SerialDevice.read_line(timeout, purge_buffer) up to its first select
SerialDevice_read_line(buffer, purge) ==
  Turn("select", "none", <<>>, IF purge THEN <<>> ELSE buffer, <<>>)

\* the turn of the loop of SerialDevice.read_line after select reported a
\* byte: what read(1) returns (nothing, if another caller read the byte in
\* between) is filtered and appended; a filtered byte equal to b"\n" ends
\* the line, which is decoded
SerialDevice_read_line_ready(buffer, bytes) ==
  LET buf == filter_ad2prot_byte(bytes)
      line == rstrip(buffer \o buf, {13, 10})
  IN  IF buf = <<10>>
      THEN IF Decodable(line) THEN Turn("none", "returned", decode(line), <<>>, <<>>)
           ELSE Turn("none", "UnicodeDecodeError", <<>>, <<>>, <<>>)
      ELSE Turn("select", "none", <<>>, buffer \o buf, <<>>)

\* SerialDevice.read_line when nothing more is read: OSError and
\* SerialException become CommError; with a timeout the loop ends at the
\* deadline; with timeout 0 the loop has no deadline
SerialDevice_read_line_idle(buffer, timed, fault) ==
  IF fault THEN Turn("none", "CommError", <<>>, buffer, <<>>)
  ELSE IF timed THEN Turn("none", "TimeoutError", <<>>, buffer, <<>>)
  ELSE Turn("select", "blocked", <<>>, buffer, <<>>)

\* SocketDevice.read_line(timeout, purge_buffer) up to its first select: an
\* unopened device is a CommError; a line already in the buffer is returned
SocketDevice_read_line(device, buffer, purge) ==
  LET start == IF purge THEN <<>> ELSE buffer
  IN  IF ~device THEN Turn("none", "CommError", <<>>, buffer, <<>>)
      ELSE IF index_newline(start) # 0 THEN TakeLine(start)
      ELSE Turn("select", "none", <<>>, start, <<>>)

\* the turn of the loop of SocketDevice.read_line after select reported
\* data: what recv returns is appended and the first b"\n" in the buffer
\* ends the line.  When another caller read the data in between, recv waits:
\* it never returns on a connection that stays silent or whose stream is
\* followed no further, and gives a CommError when the connection is closed
\* or fails
SocketDevice_read_line_ready(buffer, bytes, tail) ==
  LET appended == buffer \o bytes
  IN  IF bytes = <<>>
      THEN IF tail \in {"idle", "stream"} THEN Turn("recv", "blocked", <<>>, buffer, <<>>)
           ELSE Turn("none", "CommError", <<>>, buffer, <<>>)
      ELSE IF index_newline(appended) # 0 THEN TakeLine(appended)
      ELSE Turn("select", "none", <<>>, appended, <<>>)

\* SocketDevice.read_line when nothing more is read: select reports nothing
\* (TimeoutError, with and without a timeout), or the transport fails or is
\* closed (CommError).  The deadline is looked at only when select reports
\* nothing: a stream that always has bytes keeps the loop running.
SocketDevice_read_line_idle(buffer, tail) ==
  IF tail = "stream" THEN Turn("select", "blocked", <<>>, buffer, <<>>)
  ELSE IF tail = "idle" THEN Turn("none", "TimeoutError", <<>>, buffer, <<>>)
  ELSE Turn("none", "CommError", <<>>, buffer, <<>>)

\* SerialDevice.open: no interface, or an error of the port, is a
\* NoDeviceError; on_open is not fired
SerialDevice_open(d, fault) ==
  IF ~d.interface \/ fault # "none"
  THEN Outcome(d, "open", "NoDeviceError", <<>>, d.buffer, <<>>)
  ELSE [Outcome(d, "open", "returned", <<>>, d.buffer, <<>>) EXCEPT !.running = TRUE]

\* SocketDevice.open up to the SSL handshake: socket.error is a
\* NoDeviceError, any other exception (of connect or of _init_ssl) a
\* CommError.  With _use_ssl the connection is assigned to _device before
\* the handshake, which waits in select; without it success sets _device and
\* _running and fires on_open
SocketDevice_open(d, ssl, fault) ==
  IF fault = "OSError" THEN Outcome(d, "open", "NoDeviceError", <<>>, d.buffer, <<>>)
  ELSE IF fault # "none" THEN Outcome(d, "open", "CommError", <<>>, d.buffer, <<>>)
  ELSE IF ssl
       THEN [Outcome(d, "open", "none", <<>>, d.buffer, <<>>)
               EXCEPT !.device = TRUE, !.pos = "handshake"]
       ELSE [Outcome(d, "open", "returned", <<>>, d.buffer, <<"on_open">>)
               EXCEPT !.running = TRUE, !.device = TRUE]

\* the end of the SSL handshake of SocketDevice.open: an error of the
\* handshake leaves _device assigned and _running as it was
SocketDevice_open_handshake(d, fault) ==
  IF fault = "OSError" THEN [d EXCEPT !.pos = "none", !.outcome = "NoDeviceError"]
  ELSE IF fault # "none" THEN [d EXCEPT !.pos = "none", !.outcome = "CommError"]
  ELSE [d EXCEPT !.pos = "none", !.outcome = "returned", !.running = TRUE,
                 !.events = <<"on_open">>]

\* SerialDevice.write: SerialTimeoutException is raised again as it is,
\* every other exception of the port becomes a CommError
SerialDevice_write(d, data, fault) ==
  IF fault = "SerialTimeoutException"
  THEN Outcome(d, "write", "SerialTimeoutException", <<>>, d.buffer, <<>>)
  ELSE IF fault # "none" THEN Outcome(d, "write", "CommError", <<>>, d.buffer, <<>>)
  ELSE Outcome(d, "write", "returned", data, d.buffer, <<"on_write">>)

\* SocketDevice.write: an unopened device and every exception of send are
\* CommErrors; a completed send fires on_write, also for empty data
SocketDevice_write(d, data, fault) ==
  IF ~d.device \/ fault # "none"
  THEN Outcome(d, "write", "CommError", <<>>, d.buffer, <<>>)
  ELSE Outcome(d, "write", "returned", data, d.buffer, <<"on_write">>)

\* SerialDevice.read: one filtered byte when select reports one; only
\* SerialException becomes a CommError: an OSError of select escapes, and so
\* does the UnicodeDecodeError of a byte from 0x80 on
SerialDevice_read(d, bytes, fault) ==
  IF fault = "SerialException" THEN Outcome(d, "read", "CommError", <<>>, d.buffer, <<>>)
  ELSE IF fault # "none" THEN Outcome(d, "read", fault, <<>>, d.buffer, <<>>)
  ELSE IF ~Decodable(filter_ad2prot_byte(bytes))
       THEN Outcome(d, "read", "UnicodeDecodeError", <<>>, d.buffer, <<>>)
  ELSE Outcome(d, "read", "returned", decode(filter_ad2prot_byte(bytes)), d.buffer, <<>>)

\* SocketDevice.read: one byte when select reports one, decoded with
\* errors="replace" when it is not UTF-8; an unopened device, a closed
\* connection and every exception are CommErrors
SocketDevice_read(d, bytes, fault) ==
  IF ~d.device \/ fault # "none"
  THEN Outcome(d, "read", "CommError", <<>>, d.buffer, <<>>)
  ELSE Outcome(d, "read", "returned", decode(bytes), d.buffer, <<>>)

(***************************************************************************)
(* Firmware upload: Firmware.upload and the retrying command-line caller   *)
(***************************************************************************)

\* bin/ad2_firmwareupload.py: RETRIES
RETRIES == 3

\* the lines of a firmware file
MaxHexLines == 2

\* the record-type field line[7:9] of an Intel HEX line: data and end of file
RecordTypes == {"00", "01"}

\* a firmware file: each line starts with ":" or not and has a record type
HexFiles == UNION {[1..n -> [colon : BOOLEAN, type : RecordTypes]] : n \in 0..MaxHexLines}

\* [line.strip() for line in hexfile if line.startswith(":")]
hex_lines(file) == SelectSeq(file, LAMBDA l : l.colon)

\* what device.read_line() does for one line sent: it returns bytes or str
\* with some text, raises TimeoutError or CommError (both device classes of
\* the repository do), or never returns (SerialDevice.read_line without a
\* timeout on a port that delivers no "\n" it recognises)
Responses ==
  {[type |-> t, text |-> x] :
     t \in {"bytes", "str"}, x \in {<<">">>, <<" ", ">">>, <<"!">>}}
  \cup {[type |-> t, text |-> <<>>] : t \in {"TimeoutError", "CommError", "blocked"}}

NoResponse == [type |-> "none", text |-> <<>>]

\* what device.write(data) does: it returns, or raises as the device
\* classes of the repository do (CommError; SerialDevice.write raises the
\* SerialTimeoutException of the port again as it is)
WriteFaults == {"none", "CommError", "SerialTimeoutException"}

\* a call of Firmware.upload (call "upload", with or without a
\* progress_callback) or of upload_firmware_with_retries (call "retries",
\* which passes no callback) about to start.  pos is the place the call is
\* at: "idle" before it, "boot" in time.sleep(2), "lines" at the head of a
\* turn of the loop, "sent" after a line was written (time.sleep(0.01) and
\* the blocking read_line), "waiting" in time.sleep(1), "sleeping" in
\* time.sleep(RETRY_DELAY), "blocked" in a read_line that never returns,
\* "done" after it.  boot is what was written to reach the bootloader,
\* written the firmware lines written.
NewUpload(call, device, file, callback) ==
  [call |-> call, device |-> device, file |-> file, callback |-> callback,
   pos |-> "idle", attempt |-> 0, boot |-> <<>>, written |-> <<>>, acked |-> 0,
   stages |-> <<>>, response |-> NoResponse, raised |-> <<>>, outcome |-> "none"]

\* no upload is under consideration
NoUpload == NewUpload("none", FALSE, <<>>, FALSE)

\* emit(stage) inside Firmware.upload
emit(f, stage) ==
  IF f.callback THEN [f EXCEPT !.stages = Append(@, stage)] ELSE f

\* exc leaves Firmware.upload.  A direct caller gets it; in
\* upload_firmware_with_retries both except clauses log it, and the loop
\* goes on to time.sleep(RETRY_DELAY) and the next attempt or, after the
\* last one, raises RuntimeError.
UploadRaise_counting_from_zero(f, exc) ==
  IF f.call = "upload" THEN [f EXCEPT !.pos = "done", !.outcome = exc]
  ELSE [f EXCEPT !.raised = Append(@, exc),
                 !.pos = IF f.attempt <= RETRIES THEN "sleeping" ELSE "done",
                 !.outcome = IF f.attempt <= RETRIES THEN "none" ELSE "RuntimeError"]
UploadRaise(f, exc) ==
  IF f.call = "upload" THEN [f EXCEPT !.pos = "done", !.outcome = exc]
  ELSE [f EXCEPT !.raised = Append(@, exc),
                 !.pos = IF f.attempt < RETRIES THEN "sleeping" ELSE "done",
                 !.outcome = IF f.attempt < RETRIES THEN "none" ELSE "RuntimeError"]

\* the head of a turn of the loop of Firmware.upload: there is a next line,
\* or the loop is over, WAITING is reported and time.sleep(1) entered
UploadAdvance(f) ==
  IF f.acked = Len(hex_lines(f.file)) THEN [emit(f, "waiting") EXCEPT !.pos = "waiting"]
  ELSE [f EXCEPT !.pos = "lines"]

\* Firmware.upload from its start to time.sleep(2): START, the device test
\* (ERROR and NoDeviceError), LOAD, BOOT and the write of b"\n\n+++"
Firmware_upload_begin(f, fault) ==
  LET started == emit([f EXCEPT !.attempt = @ + 1, !.boot = <<>>, !.written = <<>>,
                                !.acked = 0, !.stages = <<>>, !.response = NoResponse],
                      "start")
      booting == emit(emit(started, "load"), "boot")
  IN  IF ~f.device THEN UploadRaise(emit(started, "error"), "NoDeviceError")
      ELSE IF fault # "none" THEN UploadRaise(booting, fault)
      ELSE [booting EXCEPT !.boot = <<<<"LF", "LF", "+", "+", "+">>>>, !.pos = "boot"]

\* Firmware.upload after time.sleep(2): the write of b"\n", UPLOADING, and
\* the head of the loop
Firmware_upload_boot(f, fault) ==
  IF fault # "none" THEN UploadRaise(f, fault)
  ELSE UploadAdvance(emit([f EXCEPT !.boot = Append(@, <<"LF">>)], "uploading"))

\* a turn of the loop of Firmware.upload up to time.sleep(0.01): the line is
\* written
Firmware_upload_write(f, fault) ==
  IF fault # "none" THEN UploadRaise(f, fault)
  ELSE [f EXCEPT !.written = Append(@, hex_lines(f.file)[f.acked + 1]), !.pos = "sent"]

\* the rest of the turn: read_line gives the response, which is stripped;
\* response.startswith(b">") raises TypeError on a str; a response not
\* starting with b">" raises UploadChecksumError for a line of record type
\* 01 and UploadError otherwise; an exception of read_line leaves upload as
\* it is, and a read_line that does not return keeps upload where it is
Firmware_upload_line(f, r) ==
  LET line == hex_lines(f.file)[f.acked + 1]
      read == [f EXCEPT !.response = r]
  IN  IF r.type = "blocked" THEN [read EXCEPT !.pos = "blocked"]
      ELSE IF r.type \in {"TimeoutError", "CommError"} THEN UploadRaise(read, r.type)
      ELSE IF r.type = "str" THEN UploadRaise(read, "TypeError")
      ELSE IF ~startswith(strip(r.text), <<">">>)
      THEN UploadRaise(read, IF line.type = "01" THEN "UploadChecksumError" ELSE "UploadError")
      ELSE UploadAdvance([read EXCEPT !.acked = @ + 1])

\* Firmware.upload after time.sleep(1): DONE, and the return, which
\* upload_firmware_with_retries passes on at once
Firmware_upload_done(f) ==
  [emit(f, "done") EXCEPT !.pos = "done", !.outcome = "returned"]

(***************************************************************************)
(* Session state                                                           *)
(***************************************************************************)
VARIABLES
  attrs,                  \* status attributes present on the decoder object
  st,                     \* their truth values (FALSE while absent or None)
  nones,                  \* the status attributes that hold None
  bypass_status,          \* decoder._bypass_status, the zones held bypassed
  relay_status,           \* decoder._relay_status, the relays held closed
  ignore_message_states,  \* constructor argument
  ignore_lrr_states,      \* constructor argument
  internal_address_mask,  \* decoder._internal_address_mask, as the set of its one bits
  subs,                   \* event name -> subscribed handlers, in order
  opens,                  \* number of AlarmDecoder.open calls so far
  opened,                 \* the device's open succeeded
  op,                     \* the last operation: [kind, decoded]
  msg,                    \* the message of the last operation
  pre_attrs, pre_st,      \* attrs and st before the last operation
  fired,                  \* the Event.fire calls of the last operation, in order
  tracker_updates,        \* Zonetracker.update calls of the last operation
  delegated,              \* the updaters _delegate_update logged and called in
                          \* the last operation, in order
  lrr_updates,            \* LRRSystem.update calls of the last operation
  in_flight,              \* the calls of handle_on_read that fired on_read and
                          \* have not decoded yet, in the order they fired
  raised,                 \* exception that escaped the last operation
  repeated,               \* the last two operations applied equal panel messages
  alarm_hist,             \* last of on_alarm/on_alarm_restored fired in the run
  calls,                  \* the handler invocations of the last operation, in order
  overflow,               \* a RecursionError was raised during the last operation
  closes,                 \* number of AlarmDecoder.close calls so far
  zones,                  \* Zonetracker: zone -> [fault, last, deadline]
  pre_zones,              \* zones before the last operation
  zone_hist,              \* zone -> last of on_zone_fault/on_zone_restore fired for it
  now,                    \* the clock, in seconds
  sessions,               \* two further decoders: their state, the list objects
                          \* they refer to, and which of them acted last
  parsed,                 \* a line handed to the parser and what the parser returned
  dev,                    \* a transport device and its last operation
  fw                      \* a firmware upload: what was sent, reported and raised

vars ==
  <<attrs, st, nones, bypass_status, relay_status, ignore_message_states, ignore_lrr_states,
    internal_address_mask, subs, opens, opened, op, msg, pre_attrs, pre_st,
    fired, tracker_updates, delegated, lrr_updates, in_flight, raised, repeated, alarm_hist,
    calls, overflow, closes, zones, pre_zones, zone_hist, now, sessions, parsed, dev, fw>>

StatusAttrs ==
  {"_ready", "_armed_away", "_armed_home", "_chime_on", "_ac_power",
   "_alarm_occurring", "_battery", "_fire", "_panic"}

\* events that report a PanelStatus change
StatusEvents ==
  {"on_ready_changed", "on_arm", "on_disarm", "on_power_changed", "on_chime_changed",
   "on_alarm", "on_alarm_restored", "on_bypass", "on_low_battery", "on_fire",
   "on_panic", "on_relay_changed"}

\* events that announce a received message of one family
FamilyEvents ==
  {"on_message", "on_expander_message", "on_rfx_message", "on_lrr_message",
   "on_aui_message"}

LowLevelEvents ==
  {"on_open", "on_close", "on_read", "on_write", "on_zone_fault", "on_zone_restore",
   "on_config_received"}

EventNames == StatusEvents \cup FamilyEvents \cup LowLevelEvents

\* str(bool)
Py(b) == IF b THEN "True" ELSE "False"

(***************************************************************************)
(* The updaters work on a context: the decoder's status attributes, the    *)
(* fire calls made so far, the tracker calls made so far, the updaters     *)
(* delegated to so far, the LRRSystem calls made so far and whether an     *)
(* exception is propagating.  An attribute of none holds None, and its     *)
(* entry of st is bool(None).                                              *)
(***************************************************************************)
Ctx(a, s) ==
  [attrs |-> a, st |-> s, none |-> nones, fired |-> <<>>, tracker |-> 0, raised |-> FALSE,
   subs |-> subs, calls |-> <<>>, overflow |-> FALSE, zones |-> zones,
   delegated |-> <<>>, lrr |-> 0]

\* AttributeError, TypeError
Raise(c) == [c EXCEPT !.raised = TRUE]

\* RecursionError
Overflow(c) == [c EXCEPT !.raised = TRUE, !.overflow = TRUE]

\* handlers of AlarmDecoder that fire the event they are subscribed to
RefiringHandlers ==
  {"_on_zone_fault", "_on_zone_restore", "_on_relay_changed", "_on_chime_changed",
   "_on_alarm", "_on_alarm_restored", "_on_fire", "_on_config_received", "_on_arm",
   "_on_disarm", "_on_bypass", "_on_ready_changed", "_on_open", "_on_close",
   "_on_write", "_on_panic"}

\* handlers a caller of the library subscribes
UserHandlers == {"user_raises", "user_ok"}

RECURSIVE Emit(_, _, _, _, _)
RECURSIVE Deliver(_, _, _, _, _, _, _, _)
RECURSIVE handle_on_read(_, _, _)

\* A subscribed handler called as handler(sender, payload), the arguments
\* of fire ("Callback definition: def callback(device, ...)").
\*  _update_internal_states(self, message) and update_expander_status(self,
\*    message) are bound methods with one parameter: called with two
\*    arguments they raise TypeError;
\*  _on_zone_fault, _on_zone_restore: "if zone:" then handle_zone_fault /
\*    handle_zone_restore fire the same event again;
\*  _on_panic stores kwargs.get('status'), which is None, in _panic and fires
\*    on_panic(None);
\*  the other _on_* handlers of RefiringHandlers fire their event again
\*    unconditionally (_on_write: "if data:", data is a non-empty line);
\*  _on_read calls handle_on_read; _on_power_changed reads message and
\*    status from kwargs, finds neither and returns.
\* The record of the call keeps the status the handler finds stored.
Invoke(h, c, name, arg, p, depth, k) ==
  LET c1 == [c EXCEPT !.calls = Append(@, [handler |-> h, event |-> name, arg |-> arg,
                                           depth |-> depth, firing |-> k,
                                           seen |-> c.st])]
      again == IF depth >= MaxNesting THEN Overflow(c1)
               ELSE Emit(c1, name, arg, p, depth + 1)
  IN  CASE h \in {"_update_internal_states", "update_expander_status"} -> Raise(c1)
        [] h \in {"_on_zone_fault", "_on_zone_restore"} -> IF arg # 0 THEN again ELSE c1
        [] h = "_on_panic" ->
             IF depth >= MaxNesting THEN Overflow(c1)
             ELSE Emit([c1 EXCEPT !.attrs = @ \cup {"_panic"}, !.st["_panic"] = FALSE,
                                  !.none = @ \cup {"_panic"}],
                       name, "None", p, depth + 1)
        [] h \in RefiringHandlers \ {"_on_zone_fault", "_on_zone_restore", "_on_panic"} ->
             again
        [] h = "_on_read" -> IF depth >= MaxNesting THEN Overflow(c1)
                             ELSE handle_on_read(c1, p, depth + 1)
        [] h = "user_raises" -> Raise(c1)
        [] OTHER -> c1

RECURSIVE Deliver_stops(_, _, _, _, _, _, _, _)
Deliver_stops(c, hs, i, name, arg, p, depth, k) ==
  IF i > Len(hs) THEN c
  ELSE LET r == Invoke(hs[i], c, name, arg, p, depth, k)
       IN  IF r.raised THEN r ELSE Deliver_stops(r, hs, i + 1, name, arg, p, depth, k)

\* the handlers are called in subscription order; a handler's failure is
\* caught and the next handler is called
Deliver(c, hs, i, name, arg, p, depth, k) ==
  IF i > Len(hs) THEN c
  ELSE Deliver([Invoke(hs[i], c, name, arg, p, depth, k) EXCEPT !.raised = FALSE],
               hs, i + 1, name, arg, p, depth, k)

\* event.fire(sender, payload) at the given nesting depth: arg is the
\* payload as logged, p the payload object handed to the subscribers; the
\* firing is the (Len(c.fired) + 1)-th of the operation
Emit(c, name, arg, p, depth) ==
  Deliver([c EXCEPT !.fired = Append(@, [name |-> name, arg |-> arg])],
          c.subs[name], 1, name, arg, p, depth, Len(c.fired) + 1)

\* event.fire(device, arg) made by an updater
Fire(c, name, arg) == Emit(c, name, arg, NoMessage, 0)

\* device.<a> = v
SetAttr(c, a, v) == [c EXCEPT !.st[a] = v, !.attrs = @ \cup {a}, !.none = @ \ {a}]

update_power_status_always(c, m) ==
  IF ~HasAttr(m, "ac_power") \/ "_ac_power" \notin c.attrs THEN Raise(c)
  ELSE Fire(SetAttr(c, "_ac_power", m.ac_power), "on_power_changed", Py(m.ac_power))

update_power_status(c, m) ==
  IF ~HasAttr(m, "ac_power") \/ "_ac_power" \notin c.attrs THEN Raise(c)
  ELSE IF m.ac_power # c.st["_ac_power"]
       THEN Fire(SetAttr(c, "_ac_power", m.ac_power), "on_power_changed", Py(m.ac_power))
       ELSE c

\* fires with the message itself as payload ("message or status")
update_chime_status(c, m) ==
  IF ~HasAttr(m, "chime_on") \/ "_chime_on" \notin c.attrs THEN Raise(c)
  ELSE IF m.chime_on # c.st["_chime_on"]
       THEN Fire(SetAttr(c, "_chime_on", m.chime_on), "on_chime_changed", "message")
       ELSE c

update_alarm_status_level(c, m) ==
  IF ~HasAttr(m, "alarm_event_occurred") \/ "_alarm_occurring" \notin c.attrs THEN Raise(c)
  ELSE IF m.alarm_event_occurred
       THEN Fire(SetAttr(c, "_alarm_occurring", TRUE), "on_alarm", "None")
       ELSE IF c.st["_alarm_occurring"]
            THEN Fire(SetAttr(c, "_alarm_occurring", FALSE), "on_alarm_restored", "None")
            ELSE c

\* zone is None on every call made by _update_internal_states.  Both
\* conditions read device._alarm_occurring, one of them on every path.
update_alarm_status(c, m) ==
  IF ~HasAttr(m, "alarm_event_occurred") \/ "_alarm_occurring" \notin c.attrs THEN Raise(c)
  ELSE IF m.alarm_event_occurred /\ ~c.st["_alarm_occurring"]
       THEN Fire(SetAttr(c, "_alarm_occurring", TRUE), "on_alarm", "None")
       ELSE IF ~m.alarm_event_occurred /\ c.st["_alarm_occurring"]
            THEN Fire(SetAttr(c, "_alarm_occurring", FALSE), "on_alarm_restored", "None")
            ELSE c

\* third branch of the armed chain: neither flag in the message, session armed
Disarm(c, m) ==
  IF ~m.armed_away /\ ~m.armed_home
  THEN IF "_armed_away" \notin c.attrs THEN Raise(c)
       ELSE IF c.st["_armed_away"]
            THEN Fire(SetAttr(SetAttr(c, "_armed_away", FALSE), "_armed_home", FALSE),
                      "on_disarm", "-")
            ELSE IF "_armed_home" \notin c.attrs THEN Raise(c)
                 ELSE IF c.st["_armed_home"]
                      THEN Fire(SetAttr(SetAttr(c, "_armed_away", FALSE), "_armed_home", FALSE),
                                "on_disarm", "-")
                      ELSE c
  ELSE c

\* second branch: armed_home in the message, not stored
ArmHome_keeps_away(c, m) ==
  IF ~HasAttr(m, "armed_home") THEN Raise(c)
  ELSE IF m.armed_home
       THEN IF "_armed_home" \notin c.attrs THEN Raise(c)
            ELSE IF ~c.st["_armed_home"]
                 THEN Fire(SetAttr(c, "_armed_home", TRUE), "on_arm", "True")
                 ELSE Disarm(c, m)
       ELSE Disarm(c, m)
ArmHome(c, m) ==
  IF ~HasAttr(m, "armed_home") THEN Raise(c)
  ELSE IF m.armed_home
       THEN IF "_armed_home" \notin c.attrs THEN Raise(c)
            ELSE IF ~c.st["_armed_home"]
                 THEN Fire(SetAttr(SetAttr(c, "_armed_home", TRUE), "_armed_away", FALSE),
                           "on_arm", "True")
                 ELSE Disarm(c, m)
       ELSE Disarm(c, m)

\* first branch: armed_away in the message, not stored
ArmAway(c, m) ==
  IF ~HasAttr(m, "armed_away") THEN Raise(c)
  ELSE IF m.armed_away
       THEN IF "_armed_away" \notin c.attrs THEN Raise(c)
            ELSE IF ~c.st["_armed_away"]
                 THEN Fire(SetAttr(SetAttr(c, "_armed_away", TRUE), "_armed_home", FALSE),
                           "on_arm", "False")
                 ELSE ArmHome(c, m)
       ELSE ArmHome(c, m)

update_armed_ready_status_both(c, m) ==
  IF m.family = "none" THEN c
  ELSE IF ~HasAttr(m, "ready") \/ "_ready" \notin c.attrs THEN Raise(c)
  ELSE LET c1 == IF m.ready # c.st["_ready"]
                 THEN Fire(SetAttr(c, "_ready", m.ready), "on_ready_changed", Py(m.ready))
                 ELSE c
           c2 == IF m.armed_away /\ ~c1.st["_armed_away"]
                 THEN Fire(SetAttr(c1, "_armed_away", TRUE), "on_arm", "False")
                 ELSE c1
       IN  IF m.armed_home /\ ~c2.st["_armed_home"]
           THEN Fire(SetAttr(c2, "_armed_home", TRUE), "on_arm", "True")
           ELSE Disarm(c2, m)

\* update_armed_ready_status(decoder, message): nothing is done for None
update_armed_ready_status(c, m) ==
  IF m.family = "none" THEN c
  ELSE IF ~HasAttr(m, "ready") \/ "_ready" \notin c.attrs THEN Raise(c)
  ELSE ArmAway(IF m.ready # c.st["_ready"]
               THEN Fire(SetAttr(c, "_ready", m.ready), "on_ready_changed", Py(m.ready))
               ELSE c, m)

\* the status of a call: that of the message unless the message is None
StatusOf(m, flag, status) == IF m.family = "none" THEN status ELSE Py(m[flag])

\* update_battery_status(decoder, message, status): None is ignored before
\* decoder._battery is read
update_battery_status(c, m, status) ==
  IF m.family # "none" /\ ~HasAttr(m, "battery_low") THEN Raise(c)
  ELSE LET new == StatusOf(m, "battery_low", status)
       IN  IF new = "None" THEN c
           ELSE IF "_battery" \notin c.attrs THEN Raise(c)
           ELSE IF new # Py(c.st["_battery"])
                THEN Fire(SetAttr(c, "_battery", new = "True"), "on_low_battery", new)
                ELSE c

\* update_fire_status(decoder, message, status)
update_fire_status(c, m, status) ==
  IF m.family # "none" /\ ~HasAttr(m, "fire_alarm") THEN Raise(c)
  ELSE LET new == StatusOf(m, "fire_alarm", status)
       IN  IF new = "None" THEN c
           ELSE IF "_fire" \notin c.attrs THEN Raise(c)
           ELSE IF new # Py(c.st["_fire"])
                THEN Fire(SetAttr(c, "_fire", new = "True"), "on_fire", new)
                ELSE c

\* the values update_panic_status is called with
PanicArgs == {"None", "True", "False"}

\* update_panic_status(decoder, status): None is ignored before decoder._panic
\* is read; any other status is compared with decoder._panic
update_panic_status(c, status) ==
  IF status = "None" THEN c
  ELSE IF "_panic" \notin c.attrs THEN Raise(c)
       ELSE IF "_panic" \in c.none \/ status # Py(c.st["_panic"])
            THEN Fire(SetAttr(c, "_panic", status = "True"), "on_panic", status)
            ELSE c

\* hasattr(message, "relay") and hasattr(message, "channel") and hasattr(message, "value")
update_expander_status(c, m) ==
  IF HasAttr(m, "relay") /\ HasAttr(m, "channel") /\ HasAttr(m, "value")
  THEN Fire(c, "on_relay_changed", "message")
  ELSE c

update_zone_bypass_status_lenient(c, m) ==
  Fire(c, "on_bypass", IF HasAttr(m, "zone_bypassed") THEN Py(m.zone_bypassed) ELSE "None")

\* zone is None on every call made by _update_internal_states: the warning
\* is logged and on_bypass is fired all the same, with no stored value compared
update_zone_bypass_status(c, m) ==
  IF ~HasAttr(m, "zone_bypassed") THEN Raise(c)
  ELSE Fire(c, "on_bypass", Py(m.zone_bypassed))

\* decoder._zonetracker is set by __init__ and never None
update_zone_tracker(c, m) == [c EXCEPT !.tracker = @ + 1]

\* _delegate_update: an exception of the update is logged and swallowed
DelegateUpdate_rethrows(c) == c
DelegateUpdate(c) == [c EXCEPT !.raised = FALSE]

\* _delegate_update logs method.__name__ before it calls the method
Delegating(c, name) == [c EXCEPT !.delegated = Append(@, name)]

\* every message class derives from BaseMessage
IsBaseMessage(m) == m.family \in {"base", "panel", "expander", "rf", "lrr", "aui"}

\* AlarmDecoder._update_internal_states(message)
_update_internal_states(c, m, ignore) ==
  LET c0 == IF IsBaseMessage(m) /\ ~ignore
            THEN LET p1 == DelegateUpdate(update_armed_ready_status(
                                 Delegating(c, "update_armed_ready_status"), m))
                     p2 == DelegateUpdate(update_power_status(
                                 Delegating(p1, "update_power_status"), m))
                     p3 == DelegateUpdate(update_chime_status(
                                 Delegating(p2, "update_chime_status"), m))
                     p4 == DelegateUpdate(update_alarm_status(
                                 Delegating(p3, "update_alarm_status"), m))
                     p5 == DelegateUpdate(update_zone_bypass_status(
                                 Delegating(p4, "update_zone_bypass_status"), m))
                     p6 == DelegateUpdate(update_battery_status(
                                 Delegating(p5, "update_battery_status"), m, "None"))
                 IN  DelegateUpdate(update_fire_status(
                                 Delegating(p6, "update_fire_status"), m, "None"))
            ELSE IF m.family = "expander"
                 THEN DelegateUpdate(update_expander_status(
                                 Delegating(c, "update_expander_status"), m))
                 ELSE c
  IN  DelegateUpdate(update_zone_tracker(Delegating(c0, "update_zone_tracker"), m))

(***************************************************************************)
(* Event registry and wiring                                               *)
(***************************************************************************)
\* methods of AlarmDecoder that wire_events and unwire_events name
DecoderMethods ==
  {"_on_open", "_on_close", "_on_read", "_on_write", "_on_zone_fault",
   "_on_zone_restore", "_update_internal_states", "update_expander_status",
   "update_zone_tracker", "_on_panic", "_on_relay_changed", "_on_chime_changed",
   "_on_bypass", "_on_alarm", "_on_alarm_restored", "_on_fire",
   "_on_config_received", "_on_arm", "_on_disarm", "_on_ready_changed",
   "_on_power_changed"}

\* the statements of wire_events, in order: <<event, handler>>
WireOrder ==
  << <<"on_open", "_on_open">>, <<"on_close", "_on_close">>,
     <<"on_read", "_on_read">>, <<"on_write", "_on_write">>,
     <<"on_zone_fault", "_on_zone_fault">>, <<"on_zone_restore", "_on_zone_restore">>,
     <<"on_message", "_update_internal_states">>,
     <<"on_expander_message", "update_expander_status">>,
     <<"on_rfx_message", "_update_zone_tracker">>,
     <<"on_lrr_message", "_update_zone_tracker">>,
     <<"on_aui_message", "_update_zone_tracker">>,
     <<"on_panic", "_on_panic">>, <<"on_relay_changed", "_on_relay_changed">>,
     <<"on_chime_changed", "_on_chime_changed">>, <<"on_bypass", "_on_bypass">>,
     <<"on_alarm", "_on_alarm">>, <<"on_alarm_restored", "_on_alarm_restored">>,
     <<"on_fire", "_on_fire">>, <<"on_bypass", "_on_bypass">>,
     <<"on_alarm_restored", "_on_alarm_restored">>, <<"on_alarm", "_on_alarm">>,
     <<"on_config_received", "_on_config_received">>,
     <<"on_alarm_restored", "_on_alarm_restored">>, <<"on_alarm", "_on_alarm">>,
     <<"on_arm", "_on_arm">>, <<"on_disarm", "_on_disarm">>,
     <<"on_ready_changed", "_on_ready_changed">>,
     <<"on_power_changed", "_on_power_changed">> >>

\* the statements of unwire_events, in order
UnwireOrder ==
  [i \in 1..Len(WireOrder) |->
     IF i = 8 THEN <<"on_expander_message", "_update_expander_status">> ELSE WireOrder[i]]

NoSubscribers == [e \in EventNames |-> <<>>]

\* event += handler
Subscribe(s, e, h) == [s EXCEPT ![e] = Append(@, h)]

\* event -= handler: the first occurrence of the handler is removed
Unsubscribe(s, e, h) ==
  IF \E i \in 1..Len(s[e]) : s[e][i] = h
  THEN LET k == CHOOSE i \in 1..Len(s[e]) :
                  s[e][i] = h /\ \A j \in 1..(i - 1) : s[e][j] # h
       IN  [s EXCEPT ![e] = SubSeq(@, 1, k - 1) \o SubSeq(@, k + 1, Len(@))]
  ELSE s

RECURSIVE WireFrom(_, _)
\* decoder.<handler> is evaluated before the subscription is made: a name
\* that is no attribute of the decoder raises AttributeError there and the
\* statements after it are not reached
WireFrom(s, i) ==
  IF i > Len(WireOrder) THEN [subs |-> s, raised |-> FALSE]
  ELSE IF WireOrder[i][2] \notin DecoderMethods THEN [subs |-> s, raised |-> TRUE]
       ELSE WireFrom(Subscribe(s, WireOrder[i][1], WireOrder[i][2]), i + 1)

wire_events(s) == WireFrom(s, 1)

RECURSIVE UnwireFrom(_, _)
UnwireFrom(s, i) ==
  IF i > Len(UnwireOrder) THEN [subs |-> s, raised |-> FALSE]
  ELSE IF UnwireOrder[i][2] \notin DecoderMethods THEN [subs |-> s, raised |-> TRUE]
       ELSE UnwireFrom(Unsubscribe(s, UnwireOrder[i][1], UnwireOrder[i][2]), i + 1)

unwire_events(s) == UnwireFrom(s, 1)

\* event.fire(decoder, message) made by a handler of the pipeline
FireEvent(c, s, name, m, ignore) == Emit(c, name, "message", m, 0)

\* _handle_keypad_message(data): msg = BaseMessage(data), which has no
\* attribute mask, so "self._internal_address_mask & msg.mask" raises
\* AttributeError; a message that had a mask would be handed to
\* _update_internal_states and fired as on_message when the masks share a bit
_handle_keypad_message(c, s, ignore) ==
  LET m == BaseMessage
  IN  IF ~HasAttr(m, "mask") THEN Raise(c)
      ELSE IF internal_address_mask \cap m.mask # {}
           THEN FireEvent(IF ~ignore THEN _update_internal_states(c, m, ignore) ELSE c,
                          s, "on_message", m, ignore)
           ELSE c

_handle_expander_message(c, s, t, ignore) ==
  FireEvent(_update_internal_states(c, ExpanderMessage(t), ignore), s,
            "on_expander_message", ExpanderMessage(t), ignore)

_handle_rfx(c, s, ignore) == FireEvent(c, s, "on_rfx_message", RFMessage, ignore)

\* LRRSystem.update(message): the long-range-radio state takes the message
\* in; no PanelStatus field is assigned and no status event fired
LRRSystem_update(c, m) == [c EXCEPT !.lrr = @ + 1]

\* _handle_lrr(data): "if not self._ignore_lrr_states:
\* self._lrr_system.update(msg)", then on_lrr_message is fired
_handle_lrr(c, s, ignore) ==
  FireEvent(IF ~ignore_lrr_states THEN LRRSystem_update(c, LRRMessage) ELSE c,
            s, "on_lrr_message", LRRMessage, ignore)

_handle_aui(c, s, ignore) == FireEvent(c, s, "on_aui_message", AUIMessage, ignore)

\* AlarmDecoder._handle_message(data): InvalidMessageError is caught, any
\* other exception escapes
_handle_message(c, s, line, ignore) ==
  LET m == parse_message(line)
  IN  IF m.family = "invalid" THEN c
      ELSE LET c1 == FireEvent(c, s, "on_message", m, ignore)
           IN  CASE m.family = "panel" -> _handle_keypad_message(c1, s, ignore)
                 [] m.family = "expander" -> _handle_expander_message(c1, s, m.type, ignore)
                 [] m.family = "rf" -> _handle_rfx(c1, s, ignore)
                 [] m.family = "lrr" -> _handle_lrr(c1, s, ignore)
                 [] m.family = "aui" -> _handle_aui(c1, s, ignore)
                 [] OTHER -> c1

\* no line: the empty data that _on_read ignores
NoLine == Line("", <<>>, 0, FALSE)

\* handle_on_read(decoder, data) up to the return of
\* decoder.on_read.fire(decoder, data)
handle_on_read_fire(c, line, depth) == Emit(c, "on_read", line, line, depth)

\* the rest of handle_on_read: either parse_message raises
\* InvalidMessageError, or _handle_message is handed the parsed message
\* object, whose parse_message raises AttributeError (a message has no
\* startswith), which _handle_message does not catch.  Both except clauses
\* read decoder.logger, an attribute AlarmDecoder does not have: the
\* AttributeError raised there leaves handle_on_read.
handle_on_read_decode(c, line) == Raise(c)

\* handle_on_read(decoder, data), called by a handler inside a firing
handle_on_read(c, line, depth) ==
  handle_on_read_decode(handle_on_read_fire(c, line, depth), line)

\* handle_on_close(decoder): resets the version and configuration attributes,
\* none of which is a status attribute, and fires on_close
handle_on_close(c) == Emit(c, "on_close", "-", NoMessage, 0)

(***************************************************************************)
(* Zone tracker                                                            *)
(***************************************************************************)
\* AlarmDecoder.fault_expansion_time_limit, in seconds
Window == 30

\* the zones of the model; zone numbers are positive
Zones == {5, 12}

\* the order in which the tracker's expiration check visits the zones
ZoneOrder == <<5, 12>>

\* no timestamp
NoTime == -1

ClearZone == [fault |-> FALSE, last |-> NoTime, deadline |-> NoTime]

FaultedZone_no_window(t) == [fault |-> TRUE, last |-> t, deadline |-> t]

\* a zone faulted at time t
FaultedZone(t) == [fault |-> TRUE, last |-> t, deadline |-> t + Window]

\* what a message tells the tracker about one zone
Indications == {"fault", "restore", "none"}

ZoneFaulted_keeps_deadline(c, z, t) ==
  IF c.zones[z].fault THEN c
  ELSE Emit([c EXCEPT !.zones[z] = FaultedZone(t)], "on_zone_fault", z, NoMessage, 0)

\* a fault indication for zone z observed at time t: Clear -> Faulted fires
\* on_zone_fault(z); Faulted -> Faulted extends the deadline and fires nothing
ZoneFaulted(c, z, t) ==
  IF c.zones[z].fault THEN [c EXCEPT !.zones[z] = FaultedZone(t)]
  ELSE Emit([c EXCEPT !.zones[z] = FaultedZone(t)], "on_zone_fault", z, NoMessage, 0)

\* Faulted -> Clear fires on_zone_restore(z); Clear -> Clear fires nothing
ZoneRestored(c, z) ==
  IF c.zones[z].fault
  THEN Emit([c EXCEPT !.zones[z] = ClearZone], "on_zone_restore", z, NoMessage, 0)
  ELSE c

RECURSIVE ExpireFrom(_, _, _)
\* the deadline check: every faulted zone whose deadline lies before t is
\* restored
ExpireFrom(c, i, t) ==
  IF i > Len(ZoneOrder) THEN c
  ELSE LET z == ZoneOrder[i]
       IN  ExpireFrom(IF c.zones[z].fault /\ t > c.zones[z].deadline
                      THEN ZoneRestored(c, z) ELSE c, i + 1, t)

\* Zonetracker.update(message) at time t, the message carrying indication
\* ind for zone z: the indication is applied, then the deadlines are checked
Zonetracker_update(c, ind, z, t) ==
  ExpireFrom(CASE ind = "fault" -> ZoneFaulted(c, z, t)
               [] ind = "restore" -> ZoneRestored(c, z)
               [] OTHER -> c, 1, t)

\* the steps by which the clock advances
TickSteps == {15, 16}

ZoneStep(h, n) ==
  CASE h = "broken" -> "broken"
    [] n = "on_zone_fault" -> IF h = "on_zone_fault" THEN "broken" ELSE "on_zone_fault"
    [] n = "on_zone_restore" -> IF h = "on_zone_fault" THEN "on_zone_restore" ELSE "broken"
    [] OTHER -> h

RECURSIVE ZoneFold(_, _, _, _)
ZoneFold(h, f, i, z) ==
  IF i > Len(f) THEN h
  ELSE ZoneFold(IF f[i].name \in {"on_zone_fault", "on_zone_restore"} /\ f[i].arg = z
                THEN ZoneStep(h, f[i].name) ELSE h, f, i + 1, z)

(***************************************************************************)
(* Initial state and operations                                            *)
(***************************************************************************)
\* status of a device whose attributes hold their defaults
DefaultStatus == [a \in StatusAttrs |-> a = "_ac_power"]

NoStatus == [a \in StatusAttrs |-> FALSE]

\* the messages handed to _update_internal_states
NonPanelMessages ==
  {ExpanderMessage("ZONE"), ExpanderMessage("RELAY"), RFMessage, LRRMessage, AUIMessage}

AlarmStep(h, n) ==
  CASE h = "broken" -> "broken"
    [] n = "on_alarm" -> IF h = "on_alarm" THEN "broken" ELSE "on_alarm"
    [] n = "on_alarm_restored" -> IF h = "on_alarm" THEN "on_alarm_restored" ELSE "broken"
    [] OTHER -> h

RECURSIVE AlarmFold(_, _, _)
AlarmFold(h, f, i) ==
  IF i > Len(f) THEN h ELSE AlarmFold(AlarmStep(h, f[i].name), f, i + 1)

(***************************************************************************)
(* Independent sessions                                                    *)
(***************************************************************************)
\* two decoders constructed side by side
Sessions == {1, 2}

\* the list object bound to the class attribute AlarmDecoder.emulate_zone
ClassList == 0

\* the list objects: the class's and one per decoder
ListIds == {ClassList} \cup Sessions

__init___class_list(i) ==
  [attrs |-> {}, st |-> [x \in StatusAttrs |-> FALSE], zonetracker |-> i,
   emulate_zone |-> ClassList]

\* AlarmDecoder.__init__ of the i-th decoder, as the attributes of the object
\* and the objects they refer to: no status attribute; self._zonetracker is
\* a Zonetracker made for this decoder; self.emulate_zone is bound to a new
\* list, which hides the list of the class attribute
__init__(i) ==
  [attrs |-> {}, st |-> [x \in StatusAttrs |-> FALSE], zonetracker |-> i,
   emulate_zone |-> i]

\* the subscriber lists that decoder_i.on_<event> resolves to: the Event
\* objects are class attributes, and each decoder has lists of its own
EventHandlers(i) == i

\* the context of an operation on decoder i: its attributes, the subscriber
\* lists its events resolve to and the zone map of the tracker it refers to
CtxOf(i) ==
  [Ctx(sessions.of[i].attrs, sessions.of[i].st)
     EXCEPT !.subs = sessions.handlers[EventHandlers(i)],
            !.zones = sessions.trackers[sessions.of[i].zonetracker],
            !.none = {}]

\* the objects after an operation of decoder i that ran in context c: the
\* attributes of the decoder, the zone map of its tracker, and the log of
\* the operation (the events fired with their sender, the handlers called
\* with the subscriber lists they were found in)
Stored(i, c) ==
  [sessions EXCEPT
     !.of[i].attrs = c.attrs,
     !.of[i].st = c.st,
     !.trackers[sessions.of[i].zonetracker] = c.zones,
     !.fired = [k \in 1..Len(c.fired) |->
                  [sender |-> i, name |-> c.fired[k].name, arg |-> c.fired[k].arg]],
     !.called = [k \in 1..Len(c.calls) |->
                   [handlers |-> EventHandlers(i), handler |-> c.calls[k].handler]],
     !.actor = i]

\* the bodies of the panel lines fed to the two decoders
SessionTexts == {<<>>, TroubleText}

\* the zones reported to the trackers of the two decoders
SessionZones == {12}

\* the events callers of the two decoders subscribe to
SessionEvents == {"on_bypass", "on_zone_fault"}

\* 0xFFFFFFFF as the set of its one bits
AllAddresses == 0..31

\* the state of an object the updaters are applied to, before any
\* operation; a is the set of status attributes the object holds
Constructed(a) ==
  /\ attrs = a
  /\ st = IF a = {} THEN NoStatus ELSE DefaultStatus
  /\ nones = {}
  /\ bypass_status = {}
  /\ relay_status = {}
  /\ ignore_message_states \in BOOLEAN
  /\ ignore_lrr_states \in BOOLEAN
  /\ internal_address_mask = AllAddresses
  /\ opens = 0
  /\ opened = FALSE
  /\ op = [kind |-> "init", decoded |-> FALSE]
  /\ msg = NoMessage
  /\ pre_attrs = attrs
  /\ pre_st = st
  /\ fired = <<>>
  /\ tracker_updates = 0
  /\ delegated = <<>>
  /\ lrr_updates = 0
  /\ in_flight = <<>>
  /\ raised = "none"
  /\ repeated = FALSE
  /\ alarm_hist = "none"
  /\ calls = <<>>
  /\ overflow = FALSE
  /\ closes = 0
  /\ zones = [z \in Zones |-> ClearZone]
  /\ pre_zones = zones
  /\ zone_hist = [z \in Zones |-> "none"]
  /\ now = 0
  /\ sessions = [of |-> [i \in Sessions |-> __init__(i)],
                 lists |-> [k \in ListIds |-> FALSE],
                 trackers |-> [i \in Sessions |-> [z \in Zones |-> ClearZone]],
                 handlers |-> [i \in Sessions |-> NoSubscribers],
                 fired |-> <<>>,
                 called |-> <<>>,
                 actor |-> 0]

\* AlarmDecoder.__init__(device, ignore_message_states, ignore_lrr_states):
\* none of the status attributes the updaters read is assigned; the bypass
\* and relay maps are empty and the internal address mask is 0xFFFFFFFF
DecoderDefaults == Constructed({})

\* a device object prepared as the tests of the updaters prepare theirs
\* (MockDevice, and the devices on which a test assigns the attribute its
\* updater reads): the status attributes are assigned before the updaters
\* run, each with its default
PreparedDevice == Constructed(StatusAttrs)

\* a new decoder: no handler is subscribed to any event
DecoderInit == DecoderDefaults /\ subs = NoSubscribers

\* nothing but the decoder is under consideration
NothingElse == parsed = Unparsed(<<>>, <<>>, 0) /\ dev = NoDevice /\ fw = NoUpload

\* no line has been handed to the parser
Init == DecoderInit /\ NothingElse

\* the state left by an operation that ran in context c; the operation
\* itself records its kind and its message, and the calls of handle_on_read
\* in progress
Finished(ctx) ==
  \E c \in {ctx} :
    /\ attrs' = c.attrs
    /\ st' = c.st
    /\ nones' = c.none
    /\ pre_attrs' = attrs
    /\ pre_st' = st
    /\ fired' = c.fired
    /\ tracker_updates' = c.tracker
    /\ raised' = IF c.raised THEN "AttributeError" ELSE "none"
    /\ repeated' = (op'.kind = "apply" /\ op.kind = "apply" /\ msg'.family = "panel"
                    /\ msg' = msg)
    /\ alarm_hist' = AlarmFold(alarm_hist, c.fired, 1)
    /\ calls' = c.calls
    /\ overflow' = c.overflow
    /\ zones' = c.zones
    /\ pre_zones' = zones
    /\ zone_hist' = [z \in Zones |-> ZoneFold(zone_hist[z], c.fired, 1, z)]
    /\ delegated' = c.delegated
    /\ lrr_updates' = c.lrr
    /\ UNCHANGED <<bypass_status, relay_status, ignore_message_states, ignore_lrr_states,
                   internal_address_mask, subs, opens, opened, closes, now, sessions, parsed,
                   dev, fw>>

Finish(ctx) == Finished(ctx) /\ UNCHANGED in_flight

\* decoder._update_internal_states(parse_panel(line))
ApplyPanel ==
  \E line \in PanelLines :
    /\ op' = [kind |-> "apply", decoded |-> TRUE]
    /\ msg' = parse_panel(line)
    /\ Finish(_update_internal_states(Ctx(attrs, st), parse_panel(line),
                                      ignore_message_states))

\* decoder._update_internal_states(message) for a message of another family
ApplyOther ==
  \E m \in NonPanelMessages :
    /\ op' = [kind |-> "apply", decoded |-> TRUE]
    /\ msg' = m
    /\ Finish(_update_internal_states(Ctx(attrs, st), m, ignore_message_states))

\* decoder._handle_message(line)
HandleMessage ==
  \E line \in Lines :
    /\ op' = [kind |-> "handle_message", decoded |-> parse_message(line).family # "invalid"]
    /\ msg' = parse_message(line)
    /\ Finish(_handle_message(Ctx(attrs, st), subs, line, ignore_message_states))

\* decoder._handle_expander_message("!EXP:a,c,v") or ("!REL:a,c,v")
HandleExpander ==
  \E t \in {"ZONE", "RELAY"} :
    /\ op' = [kind |-> "handle_expander", decoded |-> TRUE]
    /\ msg' = ExpanderMessage(t)
    /\ Finish(_handle_expander_message(Ctx(attrs, st), subs, t, ignore_message_states))

\* decoder._handle_rfx("!RFX:serial,value")
HandleRfx ==
  /\ op' = [kind |-> "handle_rfx", decoded |-> TRUE]
  /\ msg' = RFMessage
  /\ Finish(_handle_rfx(Ctx(attrs, st), subs, ignore_message_states))

\* decoder._handle_lrr("!LRR:...")
HandleLrr ==
  /\ op' = [kind |-> "handle_lrr", decoded |-> TRUE]
  /\ msg' = LRRMessage
  /\ Finish(_handle_lrr(Ctx(attrs, st), subs, ignore_message_states))

\* decoder._handle_aui("!AUI:id,type,line,text")
HandleAui ==
  /\ op' = [kind |-> "handle_aui", decoded |-> TRUE]
  /\ msg' = AUIMessage
  /\ Finish(_handle_aui(Ctx(attrs, st), subs, ignore_message_states))

\* AlarmDecoder.open: wire_events runs outside the try block, so its
\* exception escapes with the subscriptions made so far left in place; when
\* the device's open fails the subscriptions are unwired and the exception
\* is raised again
Open ==
  /\ opens < MaxOpens
  /\ ~opened
  /\ opens' = opens + 1
  /\ LET w == wire_events(subs)
     IN  IF w.raised
         THEN /\ subs' = w.subs
              /\ raised' = "AttributeError"
              /\ opened' = FALSE
         ELSE \E ok \in BOOLEAN :
                IF ok
                THEN /\ subs' = w.subs
                     /\ raised' = "none"
                     /\ opened' = TRUE
                ELSE /\ subs' = unwire_events(w.subs).subs
                     /\ raised' = IF unwire_events(w.subs).raised
                                  THEN "AttributeError" ELSE "NoDeviceError"
                     /\ opened' = FALSE
  /\ op' = [kind |-> "open", decoded |-> FALSE]
  /\ msg' = NoMessage
  /\ pre_attrs' = attrs
  /\ pre_st' = st
  /\ fired' = <<>>
  /\ tracker_updates' = 0
  /\ delegated' = <<>>
  /\ lrr_updates' = 0
  /\ repeated' = FALSE
  /\ calls' = <<>>
  /\ overflow' = FALSE
  /\ pre_zones' = zones
  /\ UNCHANGED <<attrs, st, nones, bypass_status, relay_status, ignore_message_states, ignore_lrr_states,
                 internal_address_mask, in_flight, alarm_hist,
                 closes, zones, zone_hist, now, sessions, parsed, dev, fw>>

\* the logs of an operation that fires nothing and calls no handler
NoLogs ==
  /\ msg' = NoMessage
  /\ pre_attrs' = attrs
  /\ pre_st' = st
  /\ pre_zones' = zones
  /\ fired' = <<>>
  /\ calls' = <<>>
  /\ overflow' = FALSE
  /\ tracker_updates' = 0
  /\ delegated' = <<>>
  /\ lrr_updates' = 0
  /\ repeated' = FALSE

\* AlarmDecoder.close: the device is closed, then unwire_events runs
Close ==
  /\ closes < opens
  /\ closes' = closes + 1
  /\ subs' = unwire_events(subs).subs
  /\ raised' = IF unwire_events(subs).raised THEN "AttributeError" ELSE "none"
  /\ opened' = FALSE
  /\ op' = [kind |-> "close", decoded |-> FALSE]
  /\ NoLogs
  /\ UNCHANGED <<attrs, st, nones, bypass_status, relay_status, ignore_message_states, ignore_lrr_states,
                 internal_address_mask, in_flight, alarm_hist,
                 opens, zones, zone_hist, now, sessions, parsed, dev, fw>>

\* the lines the device delivers: two panel lines, a long-range-radio line,
\* an expander line and a line of no known prefix
ReadLines ==
  { Line("!", ScenarioText, 1, FALSE), Line("!", TroubleText, 1, FALSE),
    Line("!LRR:", <<>>, 1, FALSE), Line("!EXP:", <<>>, 3, FALSE),
    Line("", <<>>, 1, FALSE) }

\* the execution contexts that deliver lines to the decoder: nothing in
\* decoder.py, versioning.py or the device classes serialises them
Readers == {1, 2}

\* decoder._on_read(sender, line) is entered in one of the contexts ("if
\* data:", and every line of ReadLines is non-empty), and handle_on_read
\* runs up to the return of decoder.on_read.fire
OnReadFire ==
  \E t \in Readers, line \in ReadLines :
    /\ \A i \in 1..Len(in_flight) : in_flight[i].reader # t
    /\ in_flight' = Append(in_flight, [reader |-> t, line |-> line])
    /\ op' = [kind |-> "on_read_fire", decoded |-> FALSE, line |-> line, reader |-> t]
    /\ msg' = NoMessage
    /\ Finished(handle_on_read_fire(Ctx(attrs, st), line, 0))

\* one of the calls in progress goes on from the firing to the end of
\* handle_on_read; the operation records whether a call that fired on_read
\* earlier is still in progress
OnReadDecode ==
  \E i \in 1..Len(in_flight) :
    /\ in_flight' = SubSeq(in_flight, 1, i - 1) \o SubSeq(in_flight, i + 1, Len(in_flight))
    /\ op' = [kind |-> "on_read",
              decoded |-> parse_message(in_flight[i].line).family # "invalid",
              line |-> in_flight[i].line, reader |-> in_flight[i].reader,
              overtook |-> i > 1]
    /\ msg' = parse_message(in_flight[i].line)
    /\ Finished(handle_on_read_decode(Ctx(attrs, st), in_flight[i].line))

\* decoder._on_close(sender)
OnClose ==
  /\ op' = [kind |-> "on_close", decoded |-> FALSE]
  /\ msg' = NoMessage
  /\ Finish(handle_on_close(Ctx(attrs, st)))

\* decoder.update_zone_tracker(message), the message carrying indication ind
\* for zone z
TrackerUpdate ==
  \E ind \in Indications, z \in Zones :
    /\ op' = [kind |-> "track", decoded |-> TRUE, ind |-> ind, zone |-> z]
    /\ msg' = NoMessage
    /\ Finish(Zonetracker_update(update_zone_tracker(Ctx(attrs, st), NoMessage),
                                 ind, z, now))

\* time passes
Tick ==
  \E d \in TickSteps :
    /\ now + d <= MaxTime
    /\ now' = now + d
    /\ op' = [kind |-> "tick", decoded |-> FALSE]
    /\ raised' = "none"
    /\ NoLogs
    /\ UNCHANGED <<attrs, st, nones, bypass_status, relay_status, ignore_message_states, ignore_lrr_states,
                   internal_address_mask, in_flight, alarm_hist, subs, opens, opened, closes, zones, zone_hist, sessions, parsed, dev, fw>>

\* decoder.internal_address_mask = value
AddressMasks == {{}, {0}, AllAddresses}

SetInternalAddressMask ==
  \E value \in AddressMasks :
    /\ value # internal_address_mask
    /\ internal_address_mask' = value
    /\ op' = [kind |-> "set_mask", decoded |-> FALSE]
    /\ raised' = "none"
    /\ NoLogs
    /\ UNCHANGED <<attrs, st, nones, bypass_status, relay_status, ignore_message_states,
                   ignore_lrr_states, in_flight, alarm_hist, subs, opens, opened, closes, zones,
                   zone_hist, now, sessions, parsed, dev, fw>>

\* the events a caller subscribes to in the model
UserEvents == {"on_power_changed"}

\* decoder.on_power_changed += handler, by a caller of the library
SubscribeUser ==
  \E e \in UserEvents, h \in UserHandlers :
    /\ Len(subs[e]) < MaxUserSubs
    /\ subs' = Subscribe(subs, e, h)
    /\ op' = [kind |-> "subscribe", decoded |-> FALSE]
    /\ raised' = "none"
    /\ NoLogs
    /\ UNCHANGED <<attrs, st, nones, bypass_status, relay_status, ignore_message_states, ignore_lrr_states,
                   internal_address_mask, in_flight, alarm_hist, opens, opened, closes, zones, zone_hist, now, sessions, parsed, dev, fw>>

\* decoder.on_bypass += handler, by a caller of the library
SubscribeBypass ==
  \E h \in UserHandlers :
    /\ Len(subs["on_bypass"]) < MaxUserSubs
    /\ subs' = Subscribe(subs, "on_bypass", h)
    /\ op' = [kind |-> "subscribe", decoded |-> FALSE]
    /\ raised' = "none"
    /\ NoLogs
    /\ UNCHANGED <<attrs, st, nones, bypass_status, relay_status, ignore_message_states,
                   ignore_lrr_states, internal_address_mask, in_flight, alarm_hist, opens,
                   opened, closes, zones, zone_hist, now, sessions, parsed, dev, fw>>

Next ==
  \/ ApplyPanel
  \/ ApplyOther
  \/ HandleMessage
  \/ HandleExpander
  \/ HandleRfx
  \/ HandleLrr
  \/ HandleAui
  \/ Open
  \/ Close
  \/ OnClose

Spec == Init /\ [][Next]_vars

\* panel messages on a decoder whose internal address mask is set
NextAddressMask ==
  \/ SetInternalAddressMask
  \/ ApplyPanel
  \/ HandleMessage

SpecAddressMask == Init /\ [][NextAddressMask]_vars

\* lines delivered to a decoder that open was or was not called on
NextReaders ==
  \/ Open
  \/ OnReadFire
  \/ OnReadDecode

SpecReaders == Init /\ [][NextReaders]_vars

\* the zone tracker in sessions that open was or was not called on
NextZones ==
  \/ TrackerUpdate
  \/ Tick
  \/ Open

SpecZones == Init /\ [][NextZones]_vars

\* sessions that are closed after the zone tracker was given messages
NextClosing ==
  \/ TrackerUpdate
  \/ Open
  \/ Close
  \/ OnClose

SpecClosing == Init /\ [][NextClosing]_vars

\* status updates in sessions with handlers subscribed by a caller
\* decoder.update_panic_status(status): the exception of the updater is
\* not caught
UpdatePanic ==
  \E status \in PanicArgs :
    /\ op' = [kind |-> "panic", decoded |-> FALSE, status |-> status]
    /\ msg' = NoMessage
    /\ Finish(update_panic_status(Ctx(attrs, st), status))

\* the arguments of a direct call of update_battery_status and
\* update_fire_status: a status without a message, and a message reporting
\* low battery and fire together with a status that says otherwise
DirectCalls ==
  {[message |-> NoMessage, status |-> s] : s \in PanicArgs}
  \cup {[message |-> PanelMessage(TroubleText), status |-> "False"]}

\* decoder.update_battery_status(message, status): the exception of the
\* updater is not caught
UpdateBattery ==
  \E call \in DirectCalls :
    /\ op' = [kind |-> "battery", decoded |-> FALSE, status |-> call.status]
    /\ msg' = call.message
    /\ Finish(update_battery_status(Ctx(attrs, st), call.message, call.status))

\* decoder.update_fire_status(message, status)
UpdateFire ==
  \E call \in DirectCalls :
    /\ op' = [kind |-> "fire", decoded |-> FALSE, status |-> call.status]
    /\ msg' = call.message
    /\ Finish(update_fire_status(Ctx(attrs, st), call.message, call.status))

\* the messages of a direct call of update_armed_ready_status: None, and
\* the messages of "!", "!READY AWAY" and "!STAY"
DirectMessages ==
  {NoMessage, PanelMessage(<<>>), PanelMessage(<<"READY", "AWAY">>), PanelMessage(<<"STAY">>)}

\* decoder.update_armed_ready_status(message)
UpdateArmedReady ==
  \E m \in DirectMessages :
    /\ op' = [kind |-> "armed_ready", decoded |-> FALSE, status |-> "None"]
    /\ msg' = m
    /\ Finish(update_armed_ready_status(Ctx(attrs, st), m))

\* decoder.update_expander_status(message)
UpdateExpander ==
  \E t \in {"ZONE", "RELAY"} :
    /\ op' = [kind |-> "expander", decoded |-> FALSE, status |-> "None"]
    /\ msg' = ExpanderMessage(t)
    /\ Finish(update_expander_status(Ctx(attrs, st), ExpanderMessage(t)))

NextEvents ==
  \/ SubscribeUser
  \/ SubscribeBypass
  \/ ApplyPanel
  \/ UpdatePanic
  \/ UpdateBattery
  \/ UpdateFire

SpecEvents == Init /\ [][NextEvents]_vars

\* the updaters applied to a prepared device, with handlers subscribed by a
\* caller
InitUpdaters == PreparedDevice /\ subs = NoSubscribers /\ NothingElse

NextUpdaters ==
  \/ SubscribeUser
  \/ ApplyPanel
  \/ UpdateBattery
  \/ UpdateFire

SpecUpdaters == InitUpdaters /\ [][NextUpdaters]_vars

\* the variables of the single decoder
decoder_vars ==
  <<attrs, st, nones, bypass_status, relay_status, ignore_message_states, ignore_lrr_states,
    internal_address_mask, subs, opens, opened, op, msg, pre_attrs, pre_st, fired,
    tracker_updates, delegated, lrr_updates, in_flight, raised, repeated, alarm_hist, calls,
    overflow, closes, zones, pre_zones, zone_hist, now>>

\* decoder i runs _update_internal_states on a panel message
SessApply ==
  \E i \in Sessions, t \in SessionTexts :
    /\ sessions' = Stored(i, _update_internal_states(CtxOf(i),
                                                     parse_panel(Line("!", t, 1, FALSE)),
                                                     FALSE))
    /\ UNCHANGED <<decoder_vars, parsed, dev, fw>>

\* the zone tracker of decoder i is given a message
SessTrack ==
  \E i \in Sessions, ind \in Indications, z \in SessionZones :
    /\ sessions' = Stored(i, Zonetracker_update(CtxOf(i), ind, z, now))
    /\ UNCHANGED <<decoder_vars, parsed, dev, fw>>

\* a caller subscribes a handler to an event of decoder i, once
SessSubscribe ==
  \E i \in Sessions, e \in SessionEvents :
    /\ sessions.handlers[EventHandlers(i)][e] = <<>>
    /\ sessions' =
         [sessions EXCEPT
            !.handlers[EventHandlers(i)] = Subscribe(@, e, "user_ok"),
            !.fired = <<>>, !.called = <<>>, !.actor = i]
    /\ UNCHANGED <<decoder_vars, parsed, dev, fw>>

\* a caller writes decoder_i.emulate_zone[0] = v
SessEmulate ==
  \E i \in Sessions, v \in BOOLEAN :
    /\ sessions' =
         [sessions EXCEPT
            !.lists[sessions.of[i].emulate_zone] = v,
            !.fired = <<>>, !.called = <<>>, !.actor = i]
    /\ UNCHANGED <<decoder_vars, parsed, dev, fw>>

NextSessions ==
  \/ SessApply
  \/ SessTrack
  \/ SessSubscribe
  \/ SessEmulate

SpecSessions == Init /\ [][NextSessions]_vars

(***************************************************************************)
(* The parser applied to generated lines                                   *)
(***************************************************************************)
\* the words a generated panel body is made of
TokenWords ==
  {"ALARM", "SOUND", "READY", "AWAY", "STAY", "CHIME", "BYPASS", "AC LOSS",
   "BAT", "FIRE", "CHECK", "PROGRAM", "FAULT"}

\* sep.join(parts)
RECURSIVE join(_, _)
join(sep, parts) ==
  IF parts = <<>> THEN <<>>
  ELSE IF Len(parts) = 1 THEN parts[1]
  ELSE parts[1] \o sep \o join(sep, Tail(parts))

\* sequences of at most MaxTokens different words
TokenSeqs ==
  UNION {{s \in [1..n -> TokenWords] : \A i, j \in 1..n : i # j => s[i] # s[j]} :
         n \in 0..MaxTokens}

\* "!" followed by the words, separated by blanks
PanelData(tokens) ==
  <<"!">> \o join(<<" ">>, [i \in 1..Len(tokens) |-> Spell(tokens[i])])

\* the texts of a field: numerals, one with a blank before it, one with a
\* sign, and a letter
FieldTexts == {<<"1", "8">>, <<"0">>, <<"0", "0">>, <<" ", "1">>, <<"-", "1">>, <<"x">>}

\* "!EXP:" and "!REL:" lines of two to MaxFields fields
ExpanderData ==
  {p \o join(<<",">>, f) :
     p \in {<<"!", "E", "X", "P", ":">>, <<"!", "R", "E", "L", ":">>},
     f \in UNION {[1..n -> FieldTexts] : n \in 2..MaxFields}}

\* "!RFX:" lines of one to six fields
RfxData ==
  {<<"!", "R", "F", "X", ":">> \o join(<<",">>, f) :
     f \in UNION {[1..n -> {<<"0">>, <<"8", "0">>, <<" ", "1">>, <<"x">>}] : n \in {1, 2, 4, 5, 6}}}

\* "!CID:" lines: the five fields of "601,1,02,456,7" with other codes and
\* partitions, and a line of four fields
CidData ==
  {<<"!", "C", "I", "D", ":">> \o join(<<",">>, <<c, <<"1">>, <<"0", "2">>, <<"4", "5", "6">>, p>>) :
     c \in {<<"6", "0", "1">>, <<"9", "6", "0", "1">>, <<"6", "0", "a">>},
     p \in {<<"7">>, <<"7", "8">>, <<>>}}
  \cup {<<"!", "C", "I", "D", ":">> \o join(<<",">>, <<<<"6", "0", "1">>, <<"1">>, <<"0", "2">>, <<"4", "5", "6">>>>)}

\* "!LRR:" and "!AUI:" lines, lines of no known prefix and a panel line
\* with blanks around it
OtherData ==
  { <<"!", "L", "R", "R", ":", "0">>,
    <<"!", "A", "U", "I", ":", "1", ",", "2", ",", "3">>,
    <<"!", "A", "U", "I", ":", "1", ",", "2", ",", "3", ",", "4">>,
    <<"!", "A", "U", "I", ":", "1", ",", "2">>,
    <<>>, <<"x">>, <<" ", "!", "R", "E", "A", "D", "Y", " ">>,
    <<"!", "r", "e", "a", "d", "y">>, <<"!", "A", "L", "R", "E", "A", "D", "Y">> }

ParserInputs ==
  {Unparsed(PanelData(t), t, 0) : t \in TokenSeqs \cup {ScenarioText, TroubleText}}
  \cup {Unparsed(d, <<>>, 0) : d \in ExpanderData \cup RfxData \cup CidData \cup OtherData}

\* the decoder as constructed, and one line to be parsed
InitParser ==
  /\ DecoderInit
  /\ ~ignore_message_states
  /\ ~ignore_lrr_states
  /\ parsed \in ParserInputs
  /\ dev = NoDevice
  /\ fw = NoUpload

\* parse_message(parsed.data), up to twice for a line
Parse ==
  /\ parsed.previous = NotParsed
  /\ parsed' = [parsed EXCEPT !.result = parse_message_data(parsed.data),
                              !.previous = parsed.result]
  /\ UNCHANGED <<decoder_vars, sessions, dev, fw>>

NextParser == Parse

SpecParser == InitParser /\ [][NextParser]_vars

\* format(value, "X")
HexChar(d) ==
  CASE d = 0 -> "0" [] d = 1 -> "1" [] d = 2 -> "2" [] d = 3 -> "3" [] d = 4 -> "4"
    [] d = 5 -> "5" [] d = 6 -> "6" [] d = 7 -> "7" [] d = 8 -> "8" [] d = 9 -> "9"
    [] d = 10 -> "A" [] d = 11 -> "B" [] d = 12 -> "C" [] d = 13 -> "D"
    [] d = 14 -> "E" [] d = 15 -> "F"

RECURSIVE ToHex(_)
ToHex(value) ==
  IF value < 16 THEN <<HexChar(value)>>
  ELSE ToHex(value \div 16) \o <<HexChar(value % 16)>>

\* the raw text of an RF message with the given value
RfData(value) ==
  <<"!", "R", "F", "X", ":", "0", "1", "8", "0", "0", "3", "6", ",">> \o ToHex(value)

\* "!RFX:" texts of a serial number and a value written with a blank, a
\* base prefix, an underscore or a sign, and texts of one and three fields
RfValueTexts ==
  { <<"8", "0">>, <<" ", "8", "0">>, <<"8", "0", " ">>, <<"0", "x", "8", "0">>,
    <<"0", "X", "8", "0">>, <<"8", "_", "0">>, <<"-", "1">>, <<"+", "8", "0">>,
    <<"0", "x">>, <<"8", "_">>, <<"g">>, <<>> }

RfConstructorData ==
  {<<"!", "R", "F", "X", ":", "0", "1", "8", "0", "0", "3", "6", ",">> \o v : v \in RfValueTexts}
  \cup { <<"!", "R", "F", "X", ":", "0", "1", "8", "0", "0", "3", "6">>,
         <<"!", "R", "F", "X", ":", "0", "1", "8", "0", "0", "3", "6", ",", "8", "0", ",", "0">> }

\* one raw text to construct a message object from
InitMessages ==
  /\ DecoderInit
  /\ ~ignore_message_states
  /\ ~ignore_lrr_states
  /\ parsed \in {Unparsed(RfData(v), <<>>, v) : v \in 0..MaxRfValue}
            \cup {Unparsed(d, <<>>, 0) : d \in ExpanderData \cup RfConstructorData \cup {<<>>}}
  /\ dev = NoDevice
  /\ fw = NoUpload

\* RFMessage(raw=parsed.data)
ConstructRF ==
  /\ parsed.result = NotParsed
  /\ startswith(parsed.data, <<"!", "R", "F", "X", ":">>) \/ parsed.data = <<>>
  /\ parsed' = [parsed EXCEPT !.result = RFMessage_parse_message(parsed.data)]
  /\ UNCHANGED <<decoder_vars, sessions, dev, fw>>

\* ExpanderMessage(parsed.data)
ConstructExpander ==
  /\ parsed.result = NotParsed
  /\ ~startswith(parsed.data, <<"!", "R", "F", "X", ":">>)
  /\ parsed' = [parsed EXCEPT !.result = ExpanderMessage_parse_message(parsed.data)]
  /\ UNCHANGED <<decoder_vars, sessions, dev, fw>>

NextMessages ==
  \/ ConstructRF
  \/ ConstructExpander

SpecMessages == InitMessages /\ [][NextMessages]_vars

(***************************************************************************)
(* Calls on a transport device                                             *)
(***************************************************************************)
\* the feeds of at most MaxWire bytes, and b"testing\r\n"
Wires ==
  UNION {[1..n -> Bytes] : n \in 0..MaxWire} \cup {TestingWire}

\* the bytes of a call: the feed, followed by bytes "a" if an endless
\* stream follows
Feed(wire, tail) ==
  IF tail = "stream" THEN wire \o [i \in 1..StreamBytes |-> 97] ELSE wire

\* bytes left in _buffer by earlier calls: none, an unfinished line, and for
\* the socket device a line and the start of the next one
Buffered(kind) ==
  IF kind = "serial" THEN {<<>>, <<97>>} ELSE {<<>>, <<97>>, <<97, 10, 97>>}

\* a device of either class, newly made or opened, with what earlier calls
\* left in its buffer; a newly made serial device with or without an interface
InitDevices ==
  /\ DecoderInit
  /\ ~ignore_message_states
  /\ ~ignore_lrr_states
  /\ parsed = Unparsed(<<>>, <<>>, 0)
  /\ dev \in {NewDevice("serial", TRUE), NewDevice("serial", FALSE), NewDevice("socket", TRUE)}
            \cup UNION {{[NewDevice(k, TRUE) EXCEPT !.device = TRUE, !.running = TRUE,
                                                       !.buffer = b] : b \in Buffered(k)} :
                         k \in DeviceKinds}
  /\ fw = NoUpload

\* device.interface = value on a serial device, opened or not: only _port is
\* assigned
DevSetInterface ==
  /\ dev.call = "none"
  /\ dev.kind = "serial"
  /\ \E value \in BOOLEAN :
    /\ value # dev.interface
    /\ dev' = [dev EXCEPT !.interface = value]
    /\ UNCHANGED <<decoder_vars, sessions, parsed, fw>>

\* device.open(no_reader_thread=True), for a socket device with or without
\* _use_ssl, up to the handshake
DevOpen ==
  /\ dev.call = "none"
  /\ \E fault \in {"none", "OSError", "other"}, ssl \in BOOLEAN :
    /\ dev.kind = "serial" => fault # "other" /\ ~ssl
    /\ dev' = [(IF dev.kind = "serial" THEN SerialDevice_open(dev, fault)
                ELSE SocketDevice_open(dev, ssl, fault))
                 EXCEPT !.feed = <<>>, !.arrived = 0, !.timed = FALSE, !.tail = fault]
    /\ UNCHANGED <<decoder_vars, sessions, parsed, fw>>

\* the SSL handshake of an open ends
DevOpenHandshake ==
  /\ dev.call = "open"
  /\ dev.pos = "handshake"
  /\ \E fault \in {"none", "OSError", "other"} :
    /\ dev' = [SocketDevice_open_handshake(dev, fault) EXCEPT !.tail = fault]
    /\ UNCHANGED <<decoder_vars, sessions, parsed, fw>>

\* device.write(data)
DevWrite ==
  /\ dev.call = "none"
  /\ \E data \in {<<>>, <<97>>, <<97, 13, 10>>},
     fault \in {"none", "OSError", "SerialException", "SerialTimeoutException"} :
    /\ dev.kind = "socket" => fault \in {"none", "OSError"}
    /\ dev' = [(IF dev.kind = "serial" THEN SerialDevice_write(dev, data, fault)
                ELSE SocketDevice_write(dev, data, fault))
                 EXCEPT !.feed = data, !.arrived = 0, !.timed = FALSE, !.tail = fault]
    /\ UNCHANGED <<decoder_vars, sessions, parsed, fw>>

\* device.read()
DevRead ==
  /\ dev.call = "none"
  /\ \E bytes \in {<<>>} \cup {<<b>> : b \in Bytes}, fault \in {"none"} \cup (Tails(dev.kind) \ {"idle", "stream"}) :
    /\ dev' = [(IF dev.kind = "serial" THEN SerialDevice_read(dev, bytes, fault)
                ELSE SocketDevice_read(dev, bytes, fault))
                 EXCEPT !.feed = bytes, !.arrived = Len(bytes), !.timed = FALSE, !.tail = fault]
    /\ UNCHANGED <<decoder_vars, sessions, parsed, fw>>

\* caller who of read_line on device d (1: the call under consideration,
\* 2: the second caller)
CallerOf(d, who) ==
  IF who = 1 THEN Caller(d.pos, d.timed, d.outcome, d.value) ELSE d.other

\* caller who went through a stretch of read_line that left t; _buffer and
\* the events are the device's
Went(d, who, t) ==
  LET shared == [d EXCEPT !.buffer = t.buffer, !.events = @ \o t.events]
  IN  IF who = 1
      THEN [shared EXCEPT !.pos = t.pos, !.outcome = t.outcome, !.value = t.value]
      ELSE [shared EXCEPT !.other.pos = t.pos, !.other.outcome = t.outcome,
                          !.other.value = t.value]

\* the transport has failed: every byte of the feed was read and an error
\* follows
Failed(d) ==
  d.got = Len(d.feed) /\ d.arrived = Len(d.feed) /\ d.tail \notin {"idle", "stream"}

\* device.read_line(timeout, purge_buffer) is entered: the transport will
\* deliver the feed and then its tail, `arrived` bytes of the feed before
\* the deadline of the call
DevReadLine ==
  /\ dev.call = "none"
  /\ \E wire \in Wires, tail \in Tails(dev.kind), timed \in BOOLEAN, purge \in BOOLEAN,
     chunk \in 1..MaxChunk :
    \E arrived \in 0..Len(Feed(wire, tail)) :
      /\ (dev.kind = "serial" /\ ~timed) \/ tail = "stream" => arrived = Len(Feed(wire, tail))
      /\ dev.kind = "serial" => chunk = 1
      /\ dev' = [Went(Outcome(dev, "read_line", "none", <<>>, dev.buffer, <<>>), 1,
                      IF dev.kind = "serial" THEN SerialDevice_read_line(dev.buffer, purge)
                      ELSE SocketDevice_read_line(dev.device, dev.buffer, purge))
                   EXCEPT !.feed = Feed(wire, tail), !.arrived = arrived, !.got = 0,
                          !.chunk = chunk, !.timed = timed, !.tail = tail,
                          !.pre_buffer = IF purge THEN <<>> ELSE dev.buffer]
      /\ UNCHANGED <<decoder_vars, sessions, parsed, fw>>

\* a second caller enters read_line on the device while the first one waits
\* in select
DevReadLineOther ==
  /\ dev.call = "read_line"
  /\ dev.pos = "select"
  /\ dev.other.pos = "none" /\ dev.other.outcome = "none"
  /\ \E timed \in BOOLEAN, purge \in BOOLEAN :
    /\ dev.kind = "socket" => timed
    /\ dev' = Went([dev EXCEPT !.other.timed = timed], 2,
                   IF dev.kind = "serial" THEN SerialDevice_read_line(dev.buffer, purge)
                   ELSE SocketDevice_read_line(dev.device, dev.buffer, purge))
    /\ UNCHANGED <<decoder_vars, sessions, parsed, fw>>

\* the select of a caller reports data: the caller goes on to read
DevReadLineSelect ==
  /\ dev.call = "read_line"
  /\ dev.got < dev.arrived
  /\ \E who \in 1..2 :
    /\ CallerOf(dev, who).pos = "select"
    /\ CallerOf(dev, who).outcome = "none"
    /\ dev' = Went(dev, who, Turn("recv", "none", <<>>, dev.buffer, <<>>))
    /\ UNCHANGED <<decoder_vars, sessions, parsed, fw>>

\* a caller whose select reported data reads: one byte from the serial
\* port, whose read returns at once; up to chunk bytes from the socket,
\* whose recv waits for the bytes that arrive later when another caller
\* read those that select reported
DevReadLineReady ==
  /\ dev.call = "read_line"
  /\ \E who \in 1..2 :
    /\ CallerOf(dev, who).pos = "recv"
    /\ CallerOf(dev, who).outcome = "none"
    /\ LET there == IF dev.kind = "socket" /\ dev.got = dev.arrived
                    THEN Len(dev.feed) ELSE dev.arrived
           n == IF dev.got + dev.chunk < there THEN dev.chunk ELSE there - dev.got
           bytes == SubSeq(dev.feed, dev.got + 1, dev.got + n)
       IN  dev' = Went([dev EXCEPT !.got = @ + n,
                                   !.arrived = IF @ < dev.got + n THEN dev.got + n ELSE @],
                       who,
                       IF dev.kind = "serial"
                       THEN SerialDevice_read_line_ready(dev.buffer, bytes)
                       ELSE SocketDevice_read_line_ready(dev.buffer, bytes, dev.tail))
    /\ UNCHANGED <<decoder_vars, sessions, parsed, fw>>

\* nothing more is read by the first caller: the bytes that arrive before
\* its deadline were read, and the deadline passes or the transport fails
DevReadLineIdle ==
  /\ dev.call = "read_line"
  /\ dev.pos = "select" /\ dev.outcome = "none"
  /\ dev.got = dev.arrived
  /\ dev' = Went(dev, 1,
                 IF dev.kind = "serial"
                 THEN SerialDevice_read_line_idle(dev.buffer, dev.timed, Failed(dev))
                 ELSE SocketDevice_read_line_idle(dev.buffer,
                        IF dev.arrived < Len(dev.feed) THEN "idle" ELSE dev.tail))
  /\ UNCHANGED <<decoder_vars, sessions, parsed, fw>>

\* nothing more is read by the second caller: the transport has failed, or
\* the deadline of the second caller passes (at any turn of the serial
\* loop; for the socket when select has nothing to report, which an
\* endless stream excludes)
DevReadLineOtherIdle ==
  /\ dev.call = "read_line"
  /\ dev.other.pos = "select" /\ dev.other.outcome = "none"
  /\ \/ Failed(dev)
     \/ dev.kind = "serial" /\ dev.other.timed
     \/ dev.kind = "socket" /\ dev.tail # "stream"
  /\ dev' = Went(dev, 2,
                 IF dev.kind = "serial"
                 THEN SerialDevice_read_line_idle(dev.buffer, TRUE, Failed(dev))
                 ELSE SocketDevice_read_line_idle(dev.buffer,
                        IF Failed(dev) THEN dev.tail ELSE "idle"))
  /\ UNCHANGED <<decoder_vars, sessions, parsed, fw>>

NextDevices ==
  \/ DevSetInterface
  \/ DevOpen
  \/ DevOpenHandshake
  \/ DevWrite
  \/ DevRead
  \/ DevReadLine
  \/ DevReadLineOther
  \/ DevReadLineSelect
  \/ DevReadLineReady
  \/ DevReadLineIdle
  \/ DevReadLineOtherIdle

SpecDevices == InitDevices /\ [][NextDevices]_vars

(***************************************************************************)
(* A firmware upload, called directly or through the retrying caller       *)
(***************************************************************************)

InitFirmware ==
  /\ DecoderInit
  /\ ~ignore_message_states
  /\ ~ignore_lrr_states
  /\ parsed = Unparsed(<<>>, <<>>, 0)
  /\ dev = NoDevice
  /\ fw \in {NewUpload("upload", d, f, c) : d \in BOOLEAN, f \in HexFiles, c \in BOOLEAN}
            \cup {NewUpload("retries", d, f, FALSE) : d \in BOOLEAN, f \in HexFiles}

\* Firmware.upload is entered: by the direct caller, or by an attempt of
\* upload_firmware_with_retries (the first, or the next after RETRY_DELAY)
UploadBegin ==
  /\ fw.call # "none"
  /\ fw.pos \in {"idle", "sleeping"}
  /\ \E fault \in WriteFaults : fw' = Firmware_upload_begin(fw, fault)
  /\ UNCHANGED <<decoder_vars, sessions, parsed, dev>>

\* time.sleep(2) is over: the bootloader is entered
UploadBoot ==
  /\ fw.pos = "boot"
  /\ \E fault \in WriteFaults : fw' = Firmware_upload_boot(fw, fault)
  /\ UNCHANGED <<decoder_vars, sessions, parsed, dev>>

\* the next firmware line is written
UploadWrite ==
  /\ fw.pos = "lines"
  /\ \E fault \in WriteFaults : fw' = Firmware_upload_write(fw, fault)
  /\ UNCHANGED <<decoder_vars, sessions, parsed, dev>>

\* the device answers the line written, or fails to
UploadLine ==
  /\ fw.pos = "sent"
  /\ \E r \in Responses : fw' = Firmware_upload_line(fw, r)
  /\ UNCHANGED <<decoder_vars, sessions, parsed, dev>>

\* time.sleep(1) is over
UploadDone ==
  /\ fw.pos = "waiting"
  /\ fw' = Firmware_upload_done(fw)
  /\ UNCHANGED <<decoder_vars, sessions, parsed, dev>>

NextFirmware ==
  \/ UploadBegin
  \/ UploadBoot
  \/ UploadWrite
  \/ UploadLine
  \/ UploadDone

SpecFirmware == InitFirmware /\ [][NextFirmware]_vars

(***************************************************************************)
(* Status updates in a session whose caller listens to every status event  *)
(***************************************************************************)

\* a session in which the caller subscribed one handler, well-behaved or
\* raising, to each status event
InitCallbacks ==
  /\ DecoderDefaults
  /\ ~ignore_message_states
  /\ NothingElse
  /\ \E h \in UserHandlers :
       subs = [e \in EventNames |-> IF e \in StatusEvents THEN <<h>> ELSE <<>>]

NextCallbacks ==
  \/ ApplyPanel
  \/ UpdatePanic
  \/ UpdateBattery
  \/ UpdateFire
  \/ UpdateArmedReady
  \/ UpdateExpander

SpecCallbacks == InitCallbacks /\ [][NextCallbacks]_vars

TypeOK ==
  /\ attrs \subseteq StatusAttrs
  /\ st \in [StatusAttrs -> BOOLEAN]
  /\ nones \subseteq attrs
  /\ bypass_status = {}
  /\ relay_status = {}
  /\ tracker_updates \in 0..(MaxOpens + 1)
  /\ opens \in 0..MaxOpens
  /\ raised \in {"none", "AttributeError", "NoDeviceError"}
  /\ alarm_hist \in {"none", "on_alarm", "on_alarm_restored", "broken"}
  /\ closes \in 0..opens
  /\ now \in 0..MaxTime
  /\ overflow \in BOOLEAN
  /\ \A z \in Zones : zones[z].fault \in BOOLEAN
  /\ ignore_lrr_states \in BOOLEAN
  /\ internal_address_mask \in AddressMasks
  /\ lrr_updates \in 0..1
  /\ Len(in_flight) <= Cardinality(Readers)

(***************************************************************************)
(* Observations used by the properties                                     *)
(***************************************************************************)
Ev(name, arg) == [name |-> name, arg |-> arg]

IsStatusEvent(e) == e.name \in StatusEvents

\* the status-change events of the last operation, in firing order
StatusFired == SelectSeq(fired, IsStatusEvent)

\* the events of the last operation with one of the given names, in order
FiredOf(names) == SelectSeq(fired, LAMBDA e : e.name \in names)

\* the last operation handed a panel message to _update_internal_states
PanelApplied == op.kind = "apply" /\ msg.family = "panel"

\* ... and the updaters ran on it
PanelUpdated == PanelApplied /\ ~ignore_message_states

\* no internal handler is ever subscribed to a status event: wire_events
\* raises before it reaches those statements
StatusEventsUnwired == \A e \in StatusEvents : subs[e] = <<>>

(***************************************************************************)
(* Properties                                                              *)
(***************************************************************************)
\* C1: when two consecutive panel messages with equal derived flags are
\* applied by the aggregator, the second one fires no status-change event.
C1_RepeatFiresNothing == repeated => StatusFired = <<>>

ArmedFired == FiredOf({"on_arm", "on_disarm"})

ArmedAttrsSet == {"_ready", "_armed_away", "_armed_home"} \subseteq pre_attrs

\* C2 (as amended): armed_away in the message and not stored arms away and
\* fires on_arm(False) once; armed_home in the message and not stored, when
\* the first case does not apply, arms home and fires on_arm(True) once;
\* neither flag while armed disarms and fires on_disarm once; in every other
\* case no armed/disarmed event fires and the armed fields are unchanged.
C2_ArmedTransitions ==
  (PanelUpdated /\ ArmedAttrsSet) =>
    LET away == msg.armed_away /\ ~pre_st["_armed_away"]
        home == msg.armed_home /\ ~pre_st["_armed_home"]
        off  == ~msg.armed_away /\ ~msg.armed_home
                  /\ (pre_st["_armed_away"] \/ pre_st["_armed_home"])
    IN  CASE away -> /\ st["_armed_away"] /\ ~st["_armed_home"]
                     /\ ArmedFired = <<Ev("on_arm", "False")>>
          [] ~away /\ home -> /\ st["_armed_home"] /\ ~st["_armed_away"]
                              /\ ArmedFired = <<Ev("on_arm", "True")>>
          [] ~away /\ ~home /\ off -> /\ ~st["_armed_away"] /\ ~st["_armed_home"]
                                      /\ ArmedFired = <<Ev("on_disarm", "-")>>
          [] OTHER -> /\ st["_armed_away"] = pre_st["_armed_away"]
                      /\ st["_armed_home"] = pre_st["_armed_home"]
                      /\ ArmedFired = <<>>

\* C2 as stated: the armed_home case holds whenever armed_home is in the
\* message and not stored, whatever the message says about armed_away.
C2_ArmedTransitionsAsStated ==
  (PanelUpdated /\ ArmedAttrsSet) =>
    /\ (msg.armed_away /\ ~pre_st["_armed_away"]) =>
         /\ st["_armed_away"] /\ ~st["_armed_home"]
         /\ ArmedFired = <<Ev("on_arm", "False")>>
    /\ (msg.armed_home /\ ~pre_st["_armed_home"]) =>
         /\ st["_armed_home"] /\ ~st["_armed_away"]
         /\ ArmedFired = <<Ev("on_arm", "True")>>
    /\ (~msg.armed_away /\ ~msg.armed_home
          /\ (pre_st["_armed_away"] \/ pre_st["_armed_home"])) =>
         /\ ~st["_armed_away"] /\ ~st["_armed_home"]
         /\ ArmedFired = <<Ev("on_disarm", "-")>>

\* a message naming both modes was applied to a disarmed session
C2_Witness ==
  /\ PanelUpdated /\ ArmedAttrsSet
  /\ msg.armed_away /\ msg.armed_home
  /\ ~pre_st["_armed_away"] /\ ~pre_st["_armed_home"]
  /\ ArmedFired = <<Ev("on_arm", "False")>>

AlarmFired == FiredOf({"on_alarm", "on_alarm_restored"})

\* C3: an alarm in the message with none stored sets alarm_occurring and
\* fires on_alarm once; no alarm in the message with one stored clears it and
\* fires on_alarm_restored once; otherwise neither fires.  Over the whole run
\* on_alarm and on_alarm_restored alternate, starting with on_alarm.
C3_AlarmEdge ==
  /\ alarm_hist # "broken"
  /\ (PanelUpdated /\ "_alarm_occurring" \in pre_attrs) =>
       CASE msg.alarm_event_occurred /\ ~pre_st["_alarm_occurring"] ->
              st["_alarm_occurring"] /\ AlarmFired = <<Ev("on_alarm", "None")>>
         [] ~msg.alarm_event_occurred /\ pre_st["_alarm_occurring"] ->
              ~st["_alarm_occurring"] /\ AlarmFired = <<Ev("on_alarm_restored", "None")>>
         [] OTHER ->
              st["_alarm_occurring"] = pre_st["_alarm_occurring"] /\ AlarmFired = <<>>

\* an alarm was raised earlier in the run and the last message restored it
C3_Witness ==
  /\ PanelUpdated
  /\ AlarmFired = <<Ev("on_alarm_restored", "None")>>
  /\ alarm_hist = "on_alarm_restored"

\* one edge-triggered field: attribute a, message flag v, event name n
\* carrying payload p
EdgeField(a, v, n, p) ==
  a \in pre_attrs =>
    IF v # pre_st[a]
    THEN st[a] = v /\ FiredOf({n}) = <<Ev(n, p)>>
    ELSE st[a] = pre_st[a] /\ FiredOf({n}) = <<>>

\* C4: for power, chime, battery-low and fire: a message value that differs
\* from the stored one is stored and fires the field's event once, carrying
\* it (on_chime_changed carries the message that holds it); an equal value
\* changes nothing and fires nothing.
C4_EdgeTriggeredFields ==
  PanelUpdated =>
    /\ EdgeField("_ac_power", msg.ac_power, "on_power_changed", Py(msg.ac_power))
    /\ EdgeField("_chime_on", msg.chime_on, "on_chime_changed", "message")
    /\ EdgeField("_battery", msg.battery_low, "on_low_battery", Py(msg.battery_low))
    /\ EdgeField("_fire", msg.fire_alarm, "on_fire", Py(msg.fire_alarm))

\* one message changed power, chime and battery at once
C4_Witness ==
  /\ PanelUpdated
  /\ pre_st["_ac_power"] # st["_ac_power"]
  /\ pre_st["_chime_on"] # st["_chime_on"]
  /\ pre_st["_battery"] # st["_battery"]
  /\ Len(FiredOf({"on_power_changed", "on_chime_changed", "on_low_battery"})) = 3

\* position of an event's field in the order power, chime, alarm, bypass,
\* battery, fire, armed/ready
StatedRank(n) ==
  CASE n = "on_power_changed" -> 1
    [] n = "on_chime_changed" -> 2
    [] n \in {"on_alarm", "on_alarm_restored"} -> 3
    [] n = "on_bypass" -> 4
    [] n = "on_low_battery" -> 5
    [] n = "on_fire" -> 6
    [] n \in {"on_ready_changed", "on_arm", "on_disarm"} -> 7
    [] OTHER -> 9

\* the events that report a change of status attribute a
EventsOfAttr(a) ==
  CASE a = "_ready" -> {"on_ready_changed"}
    [] a \in {"_armed_away", "_armed_home"} -> {"on_arm", "on_disarm"}
    [] a = "_ac_power" -> {"on_power_changed"}
    [] a = "_chime_on" -> {"on_chime_changed"}
    [] a = "_alarm_occurring" -> {"on_alarm", "on_alarm_restored"}
    [] a = "_battery" -> {"on_low_battery"}
    [] a = "_fire" -> {"on_fire"}
    [] OTHER -> {}

\* every changed status attribute has exactly one event of its own
OneEventPerChange ==
  \A a \in StatusAttrs : st[a] # pre_st[a] => Len(FiredOf(EventsOfAttr(a))) = 1

\* the field updaters the last operation delegated to, in the order of the
\* delegations
FieldsEvaluated == SelectSeq(delegated, LAMBDA n : n # "update_zone_tracker")

\* the updaters of the fields power, chime, alarm, bypass, battery, fire and
\* armed/ready
StatedOrder ==
  <<"update_power_status", "update_chime_status", "update_alarm_status",
    "update_zone_bypass_status", "update_battery_status", "update_fire_status",
    "update_armed_ready_status">>

\* C5: a panel message is evaluated field by field in the order power,
\* chime, alarm, bypass, battery, fire, armed/ready; the events it fires
\* appear in that order, one event for every field that changed.
C5_EventsInStatedOrder ==
  PanelUpdated =>
    /\ FieldsEvaluated = StatedOrder
    /\ \A i, j \in 1..Len(StatusFired) :
         i < j => StatedRank(StatusFired[i].name) <= StatedRank(StatusFired[j].name)
    /\ OneEventPerChange

\* the status a new session holds: no status attribute assigned yet, or
\* every attribute at its default
NewSession == pre_attrs = {} \/ (pre_attrs = StatusAttrs /\ pre_st = DefaultStatus)

\* C6: on a new session the line "!READY STAY CHIME BAT" fires exactly
\* on_ready_changed(True), on_chime_changed, on_low_battery(True),
\* on_arm(True), in this order, and no other status-change event.
C6_ScenarioEvents ==
  (PanelUpdated /\ msg = PanelMessage(ScenarioText) /\ NewSession) =>
    StatusFired = <<Ev("on_ready_changed", "True"), Ev("on_chime_changed", "message"),
                    Ev("on_low_battery", "True"), Ev("on_arm", "True")>>

\* C7: a bypass update without a zone identifier (the only kind
\* _update_internal_states makes) raises nothing and fires no on_bypass.
C7_NoBypassWithoutZone ==
  PanelApplied => (FiredOf({"on_bypass"}) = <<>> /\ raised = "none")

\* C8: processing an ExpanderMessage fires on_relay_changed if and only if
\* its type is RELAY, and a ZONE message changes no status field.
C8_RelayChangedIffRelay ==
  (msg.family = "expander" /\ op.kind \in {"apply", "handle_expander"}) =>
    /\ (FiredOf({"on_relay_changed"}) # <<>>) <=> (msg.type = "RELAY")
    /\ msg.type = "ZONE" => (st = pre_st /\ attrs = pre_attrs)

C10_TrackerUpdatedOnce ==
  (op.decoded /\ opens >= 1) => tracker_updates = 1

\* C11: a line that cannot be decoded is absorbed by the pipeline: nothing is
\* raised to the caller of _on_read, no message event is fired, the status
\* updaters and the zone tracker are not invoked and the status is unchanged.
C11_UndecodableAbsorbed ==
  (op.kind = "on_read" /\ ~op.decoded) =>
    /\ raised = "none"
    /\ \A i \in 1..Len(fired) : fired[i].name = "on_read"
    /\ tracker_updates = 0
    /\ st = pre_st
    /\ attrs = pre_attrs

\* the number of times event name was fired for zone z in the last operation
ZoneEvents(name, z) ==
  Cardinality({i \in 1..Len(fired) : fired[i].name = name /\ fired[i].arg = z})

\* the last operation was a tracker invocation that carried no fault
\* indication for zone z
CheckedOnly(z) == op.kind = "track" /\ ~(op.ind = "fault" /\ op.zone = z)

\* C12: the first tracker invocation after the deadline of a faulted zone
\* that was not refreshed fires exactly one on_zone_restore for it and
\* clears it, and an invocation that finds the zone clear fires none.
C12_ExpiryRestoresOnce ==
  \A z \in Zones :
    CheckedOnly(z) =>
      /\ (pre_zones[z].fault /\ now > pre_zones[z].deadline) =>
           (ZoneEvents("on_zone_restore", z) = 1 /\ ~zones[z].fault)
      /\ ~pre_zones[z].fault => ZoneEvents("on_zone_restore", z) = 0

\* C13: each Clear -> Faulted transition fires exactly one on_zone_fault and
\* each Faulted -> Clear transition exactly one on_zone_restore for the zone,
\* a restore indication for a clear zone fires nothing, and per zone the two
\* events alternate, starting with on_zone_fault.
C13_ZoneEventsAlternate ==
  \A z \in Zones :
    /\ zone_hist[z] # "broken"
    /\ op.kind = "track" =>
         /\ (~pre_zones[z].fault /\ zones[z].fault) => ZoneEvents("on_zone_fault", z) = 1
         /\ (pre_zones[z].fault /\ ~zones[z].fault) => ZoneEvents("on_zone_restore", z) = 1
         /\ (~pre_zones[z].fault /\ op.ind = "restore" /\ op.zone = z) =>
              (ZoneEvents("on_zone_fault", z) = 0 /\ ZoneEvents("on_zone_restore", z) = 0)

\* C14: a fault indication for a zone that is already Faulted keeps it
\* Faulted, moves its deadline to the observation time plus the window and
\* fires no on_zone_fault for it.
C14_RefreshExtendsDeadline ==
  \A z \in Zones :
    (op.kind = "track" /\ op.ind = "fault" /\ op.zone = z /\ pre_zones[z].fault) =>
      /\ zones[z].fault
      /\ zones[z].last = now
      /\ zones[z].deadline = now + Window
      /\ ZoneEvents("on_zone_fault", z) = 0

\* a wired session refreshed a faulted zone later than its fault, after its
\* first deadline had passed
C14_Witness ==
  \E z \in Zones :
    /\ op.kind = "track" /\ op.ind = "fault" /\ op.zone = z
    /\ pre_zones[z].fault /\ now > pre_zones[z].deadline
    /\ zones[z].deadline > pre_zones[z].deadline
    /\ opens >= 1

\* C15: in every reachable state each faulted zone has a last-fault
\* timestamp, and its deadline is that timestamp plus the window, hence
\* later than the timestamp.
C15_FaultedHasDeadline ==
  \A z \in Zones :
    zones[z].fault =>
      /\ zones[z].last # NoTime
      /\ zones[z].last \in 0..now
      /\ zones[z].deadline = zones[z].last + Window
      /\ zones[z].deadline > zones[z].last

\* two zones are faulted with different timestamps, one of them past its
\* deadline and not yet checked
C15_Witness ==
  /\ \A z \in Zones : zones[z].fault
  /\ \E y, z \in Zones : zones[y].last < zones[z].last /\ now > zones[y].deadline

\* the handlers invoked for the k-th firing of the last operation, in order
RECURSIVE HandlersFrom(_, _)
HandlersFrom(k, i) ==
  IF i > Len(calls) THEN <<>>
  ELSE (IF calls[i].firing = k THEN <<calls[i].handler>> ELSE <<>>) \o HandlersFrom(k, i + 1)

HandlersOf(k) == HandlersFrom(k, 1)

NoDuplicates(hs) == \A i, j \in 1..Len(hs) : hs[i] = hs[j] => i = j

\* C16: every firing invokes the handlers subscribed to its event once each,
\* in subscription order, and in a session wired by wire_events no handler
\* is invoked twice for one firing.
C16_OncePerFiring ==
  \A k \in 1..Len(fired) :
    /\ HandlersOf(k) = subs[fired[k].name]
    /\ opens >= 1 => NoDuplicates(HandlersOf(k))

\* the last operation fired event e to subscribers of which one raises
RaisingFiring(k) ==
  /\ fired[k].name \in UserEvents
  /\ \E i \in 1..Len(subs[fired[k].name]) : subs[fired[k].name][i] = "user_raises"

\* C17: when a subscriber raises during a firing, every subscriber of the
\* event is still invoked, nothing propagates out of the operation that
\* fired, and the status update that fired the event stays applied.
C17_RaisingSubscriberContained ==
  \A k \in 1..Len(fired) :
    (op.kind = "apply" /\ RaisingFiring(k)) =>
      /\ HandlersOf(k) = subs[fired[k].name]
      /\ raised = "none"
      /\ "_ac_power" \in attrs /\ st["_ac_power"] = msg.ac_power
      /\ st["_ac_power"] # pre_st["_ac_power"]

\* a power change was fired to a raising subscriber followed by another
\* one, and both were invoked
C17_Witness ==
  /\ op.kind = "apply" /\ msg.family = "panel"
  /\ subs["on_power_changed"] = <<"user_raises", "user_ok">>
  /\ \E k \in 1..Len(fired) :
       fired[k].name = "on_power_changed" /\ HandlersOf(k) = <<"user_raises", "user_ok">>
  /\ st["_ac_power"] # pre_st["_ac_power"]

\* C18: in a session wired by wire_events every firing returns after a
\* bounded number of handler invocations: no chain of nested firings grows
\* until the interpreter's recursion limit cuts it.
C18_FiringTerminates == opens >= 1 => ~overflow

\* C19: after open followed by close no subscription made by wire_events
\* remains on any event.
C19_CloseUnwires ==
  (op.kind = "close" /\ closes = opens) => subs = NoSubscribers

\* C20: after a session is closed the status attributes, the bypass and
\* relay maps and the zone map hold their initial defaults again.
C20_CloseResetsStatus ==
  op.kind \in {"close", "on_close"} =>
    /\ attrs = {}
    /\ st = NoStatus
    /\ bypass_status = {}
    /\ relay_status = {}
    /\ \A z \in Zones : zones[z] = ClearZone

\* C21: an open that raises leaves none of the subscriptions of wire_events
\* behind, so after any number of opens every handler is subscribed as
\* after a single wire_events, or not at all.
C21_FailedOpenUnwires ==
  (op.kind = "open" /\ closes = 0) =>
    /\ raised # "none" => subs = NoSubscribers
    /\ subs \in {NoSubscribers, wire_events(NoSubscribers).subs}

\* what decoder j holds: status, the subscribers of its events, the zone
\* states of its tracker and the contents of the list its emulate_zone
\* refers to
SessionView(j) ==
  [attrs |-> sessions.of[j].attrs, st |-> sessions.of[j].st,
   subs |-> sessions.handlers[EventHandlers(j)],
   zones |-> sessions.trackers[sessions.of[j].zonetracker],
   emulate_zone |-> sessions.lists[sessions.of[j].emulate_zone]]

StoredPanic == IF "_panic" \in pre_attrs THEN pre_st["_panic"] ELSE FALSE

\* C24: update_panic_status stores the status and fires exactly one
\* on_panic carrying it if and only if the status is not None and differs
\* from the stored flag; otherwise nothing changes and nothing is fired.
C24_PanicEdgeTriggered ==
  op.kind = "panic" =>
    /\ raised = "none"
    /\ IF op.status # "None" /\ op.status # Py(StoredPanic)
       THEN /\ "_panic" \in attrs /\ Py(st["_panic"]) = op.status
            /\ fired = <<Ev("on_panic", op.status)>>
       ELSE st = pre_st /\ fired = <<>>

(***************************************************************************)
(* Properties of the parser                                                *)
(***************************************************************************)
\* the last parse was of a generated panel line
PanelParsed ==
  parsed.result # NotParsed /\ parsed.data = PanelData(parsed.tokens)

\* the word is one of those the body of the parsed line was made of
Present(w) == \E i \in 1..Len(parsed.tokens) : parsed.tokens[i] = w

\* C25: parse_message turns a "!" line into a PanelMessage in which every
\* boolean field is true exactly when its word is in the body, except
\* ac_power, which is true exactly when "AC LOSS" is not; parsing the same
\* line again gives the same fields.
C25_PanelFieldsFromTokens ==
  PanelParsed =>
    /\ parsed.result.class = "PanelMessage"
    /\ parsed.result.ready = Present("READY")
    /\ parsed.result.armed_away = Present("AWAY")
    /\ parsed.result.armed_home = Present("STAY")
    /\ parsed.result.chime_on = Present("CHIME")
    /\ parsed.result.battery_low = Present("BAT")
    /\ parsed.result.fire_alarm = Present("FIRE")
    /\ parsed.result.alarm_event_occurred = Present("ALARM")
    /\ parsed.result.alarm_sounding = Present("SOUND")
    /\ parsed.result.bypass = Present("BYPASS")
    /\ parsed.result.zone_bypassed = Present("BYPASS")
    /\ parsed.result.check_zone = Present("CHECK")
    /\ parsed.result.programming_mode = Present("PROGRAM")
    /\ parsed.result.system_fault = Present("FAULT")
    /\ parsed.result.ac_power = ~Present("AC LOSS")
    /\ (parsed.previous # NotParsed => parsed.result = parsed.previous)

\* "!READY STAY CHIME BAT" was parsed twice: ready, chime_on, battery_low,
\* armed_home and ac_power are true and armed_away is false
C25_Witness ==
  /\ parsed.data = PanelData(ScenarioText)
  /\ parsed.previous # NotParsed
  /\ parsed.result.class = "PanelMessage"
  /\ parsed.result.ready /\ parsed.result.chime_on /\ parsed.result.battery_low
  /\ parsed.result.armed_home /\ parsed.result.ac_power
  /\ ~parsed.result.armed_away

\* bit b of v is set, the lowest bit being bit 1
Bit(v, b) == (v \div 2^(b - 1)) % 2 = 1

\* the last operation constructed an RFMessage from a generated raw text
RfConstructed ==
  parsed.result # NotParsed /\ parsed.data = RfData(parsed.value)

\* C26: for every RF value up to MaxRfValue the constructed RFMessage
\* carries that value, battery is its bit 2, supervision bit 3, loop[2]
\* bit 5, loop[1] bit 6, loop[3] bit 7 and loop[0] bit 8; the flags are
\* therefore the same for two values that agree on these six bits.
C26_RfFlagsFromBits ==
  RfConstructed =>
    /\ parsed.result.class = "RFMessage"
    /\ parsed.result.value = parsed.value
    /\ parsed.result.battery = Bit(parsed.value, 2)
    /\ parsed.result.supervision = Bit(parsed.value, 3)
    /\ parsed.result.loop[3] = Bit(parsed.value, 5)
    /\ parsed.result.loop[2] = Bit(parsed.value, 6)
    /\ parsed.result.loop[4] = Bit(parsed.value, 7)
    /\ parsed.result.loop[1] = Bit(parsed.value, 8)

\* the value FF52 was decoded: bits 2, 5 and 7 and all of the high byte are
\* set, and only battery, loop[2] and loop[3] are true
C26_Witness ==
  /\ RfConstructed
  /\ parsed.value = 65362
  /\ parsed.result.battery /\ ~parsed.result.supervision
  /\ parsed.result.loop = <<FALSE, FALSE, TRUE, TRUE>>

\* the "!EXP:" lines of three decimal fields among the generated lines
ExpPrefix == <<"!", "E", "X", "P", ":">>

\* the message C27 expects of the line made of the three fields
ExpectedExpander(f, t) ==
  [class |-> "ExpanderMessage", address |-> int(f[1], 10), type |-> t,
   channel |-> int(f[2], 10), value |-> int(f[3], 10)]

\* C27: a parsed "!EXP:" line of three decimal fields gives an
\* ExpanderMessage of type ZONE (0) holding the integer values of the fields,
\* and a parsed "!EXP:" line of fewer fields or with a field that is not a
\* decimal numeral gives InvalidMessageError.
C27_ExpanderLineDecodes ==
  \A n \in 2..MaxFields : \A f \in [1..n -> FieldTexts] :
    (parsed.result # NotParsed /\ parsed.data = ExpPrefix \o join(<<",">>, f)) =>
      IF n = 3 /\ \A k \in 1..3 : IsNumeral(f[k], 10)
      THEN parsed.result = ExpectedExpander(f, 0)
      ELSE n > 3 \/ parsed.result.class = "InvalidMessageError"

\* the fields of the body of a prefixed line, the prefix being five characters
BodyFields == split(Slice(parsed.data, 5), ",")

\* C28: a parsed "!RFX:" line of five fields gives an RFMessage, and a
\* parsed "!RFX:" line of fewer fields gives InvalidMessageError.
C28_RfLineDecodes ==
  (parsed.result # NotParsed /\ startswith(parsed.data, <<"!", "R", "F", "X", ":">>)) =>
    IF Len(BodyFields) = 5 THEN parsed.result.class = "RFMessage"
    ELSE Len(BodyFields) > 5 \/ parsed.result.class = "InvalidMessageError"

\* C29: a parsed "!REL:" line of three decimal fields gives an
\* ExpanderMessage of type RELAY (1) holding the integer values of the
\* fields, not a PanelMessage.
C29_RelayLineDecodes ==
  \A f \in [1..3 -> FieldTexts] :
    (/\ parsed.result # NotParsed
     /\ parsed.data = <<"!", "R", "E", "L", ":">> \o join(<<",">>, f)
     /\ \A k \in 1..3 : IsNumeral(f[k], 10)) =>
      parsed.result = ExpectedExpander(f, 1)

\* the body of the parsed line is three digits, one digit, two digits, three
\* digits and one digit, separated by commas, and nothing else
CidBodyExact ==
  /\ Len(BodyFields) = 5
  /\ \A k \in 1..5 :
       /\ Len(BodyFields[k]) = <<3, 1, 2, 3, 1>>[k]
       /\ \A i \in 1..Len(BodyFields[k]) : BodyFields[k][i] \in DecimalDigits

\* C30: a parsed "!CID:" line whose body is exactly the five-field pattern
\* gives an ADEMCOContactID whose code, qualifier, group, zone and partition
\* are the five fields in order, and a parsed "!CID:" line with any other
\* body gives InvalidMessageError.
C30_CidLineDecodes ==
  (parsed.result # NotParsed /\ startswith(parsed.data, <<"!", "C", "I", "D", ":">>)) =>
    IF CidBodyExact
    THEN parsed.result =
           [class |-> "ADEMCOContactID", code |-> BodyFields[1],
            qualifier |-> BodyFields[2], group |-> BodyFields[3],
            zone |-> BodyFields[4], partition |-> BodyFields[5]]
    ELSE parsed.result.class = "InvalidMessageError"

\* no second caller entered read_line during the call
Undisturbed == dev.other = NoCaller

\* the call is over, or it is in a loop that nothing ends
Ended == dev.outcome # "none"

\* a read_line call, alone on an opened device with an empty buffer, for
\* which the transport delivered, whole, the bytes of a line followed by
\* CR LF
LineDelivered ==
  /\ dev.call = "read_line"
  /\ Undisturbed
  /\ Ended
  /\ dev.device
  /\ dev.pre_buffer = <<>>
  /\ dev.arrived = Len(dev.feed)
  /\ Len(dev.feed) >= 2
  /\ SubSeq(dev.feed, Len(dev.feed) - 1, Len(dev.feed)) = <<13, 10>>
  /\ \A i \in 1..(Len(dev.feed) - 2) : dev.feed[i] >= 32 /\ dev.feed[i] # 127

\* C31: for a serial and for a socket device, when the transport delivers the
\* bytes of a line followed by CR LF, read_line returns the characters of the
\* line without the CR LF (b"testing\r\n" gives "testing") and the returned
\* bytes are no longer in the buffer.
C31_ReadLineStripsCrLf ==
  LineDelivered =>
    /\ dev.outcome = "returned"
    /\ dev.value = decode(SubSeq(dev.feed, 1, Len(dev.feed) - 2))
    /\ dev.buffer = <<>>

\* the bytes a read_line call received before it ended
Received == SubSeq(dev.feed, 1, dev.got)

\* a read_line call with a deadline, alone on an opened device whose
\* transport neither failed nor delivered a line terminator before the
\* deadline
NoLineInTime ==
  /\ dev.call = "read_line"
  /\ Undisturbed
  /\ Ended
  /\ dev.got = dev.arrived
  /\ dev.device
  /\ dev.timed
  /\ dev.tail \in {"idle", "stream"}
  /\ index_newline(dev.pre_buffer \o Received) = 0

\* C32: a read_line call with a timeout greater than zero that gets no
\* complete line before its deadline raises TimeoutError, also when bytes
\* keep arriving without a terminator, and the bytes received (those the
\* serial device does not filter out) are in the buffer afterwards.
C32_ReadLineTimesOut ==
  NoLineInTime =>
    /\ dev.outcome = "TimeoutError"
    /\ dev.buffer = dev.pre_buffer \o (IF dev.kind = "serial"
                                       THEN filter_ad2prot_byte(Received)
                                       ELSE Received)

\* the transport failed with an I/O error during the call
IoFault == dev.tail \in {"OSError", "SerialException"}

\* C33: a transport call that fails raises NoDeviceError, CommError or
\* TimeoutError and nothing else: an I/O error during write, read or
\* read_line gives CommError, a wait that ran out gives TimeoutError, and an
\* open that fails gives NoDeviceError and leaves the device as running as it
\* was.
C33_FailuresAreTransportErrors ==
  (dev.call # "none" /\ Ended) =>
    /\ dev.outcome \in {"returned", "blocked", "NoDeviceError", "CommError", "TimeoutError"}
    /\ dev.other.outcome \in {"none", "returned", "CommError", "TimeoutError"}
    /\ (dev.call = "open" /\ dev.outcome # "returned") =>
         dev.outcome = "NoDeviceError" /\ dev.running = dev.pre_running
    /\ (dev.call \in {"write", "read"} /\ IoFault) => dev.outcome = "CommError"
    /\ (dev.call = "write" /\ dev.tail = "SerialTimeoutException") =>
         dev.outcome = "TimeoutError"
    /\ (dev.call = "read_line" /\ IoFault /\ dev.arrived = Len(dev.feed)
        /\ dev.outcome # "returned") => dev.outcome = "CommError"

\* C34: upload_firmware_with_retries calls Firmware.upload at most RETRIES
\* times and every call but the last one raised; it returns exactly when a
\* call did not raise, with no call after that one, and it raises
\* RuntimeError exactly when RETRIES calls were made and all of them raised.
C34_RetriesUntilFirstSuccess ==
  fw.call = "retries" =>
    /\ fw.attempt <= RETRIES
    /\ Len(fw.raised) \in {fw.attempt - 1, fw.attempt}
    /\ fw.outcome = "returned" <=> (fw.pos = "done" /\ Len(fw.raised) = fw.attempt - 1)
    /\ fw.outcome = "RuntimeError" <=> Len(fw.raised) = RETRIES
    /\ fw.outcome = "RuntimeError" => fw.attempt = RETRIES
    /\ fw.outcome \in {"none", "returned", "RuntimeError"}

\* the third attempt succeeded after two attempts that raised
C34_Witness ==
  /\ fw.call = "retries"
  /\ fw.outcome = "returned"
  /\ fw.attempt = RETRIES
  /\ Len(fw.raised) = RETRIES - 1
  /\ fw.acked = MaxHexLines

\* the last response of the device is a text that does not start with ">"
Refused ==
  /\ fw.response.type \in {"bytes", "str"}
  /\ ~startswith(strip(fw.response.text), <<">">>)

\* C38: Firmware.upload sends the firmware lines in file order, each one
\* only after the response to the one before started with ">"; a response
\* that does not start with ">" ends the upload with UploadError, or with
\* UploadChecksumError when the line sent has record type 01, without
\* STAGE_DONE; STAGE_DONE is reported only when every line was acknowledged
\* and after START, LOAD, BOOT, UPLOADING and WAITING in this order.
C38_UploadLineByLine ==
  fw.call = "upload" =>
    LET lines == hex_lines(fw.file)
    IN  /\ fw.written = SubSeq(lines, 1, Len(fw.written))
        /\ Len(fw.written) <= fw.acked + 1
        /\ Refused =>
             /\ fw.pos = "done"
             /\ fw.outcome = IF lines[Len(fw.written)].type = "01"
                             THEN "UploadChecksumError" ELSE "UploadError"
             /\ \A i \in 1..Len(fw.stages) : fw.stages[i] # "done"
        /\ (\E i \in 1..Len(fw.stages) : fw.stages[i] = "done") =>
             /\ fw.acked = Len(lines)
             /\ fw.stages = <<"start", "load", "boot", "uploading", "waiting", "done">>

\* the last operation left the status as it was and fired no status event
StatusUntouched ==
  /\ attrs = pre_attrs
  /\ st = pre_st
  /\ \A i \in 1..Len(fired) : fired[i].name \notin StatusEvents

\* the address mask of the message has a bit in common with the internal
\* address mask of the session
MaskShared ==
  IF msg.mask = "None" THEN FALSE ELSE internal_address_mask \cap msg.mask # {}

\* C35: a panel message changes the status and fires status events only
\* when its address mask has a bit in common with internal_address_mask and
\* ignore_message_states is false, whether it comes through _handle_message
\* or is handed to _update_internal_states.
C35_PanelFilteredByMaskAndIgnore ==
  (/\ msg.family = "panel"
   /\ op.kind \in {"apply", "handle_message"}
   /\ ~(MaskShared /\ ~ignore_message_states)) => StatusUntouched

\* the last operation fired the event
Fired(name) == \E i \in 1..Len(fired) : fired[i].name = name

\* C36: when _update_internal_states applies a panel message, a failure in
\* one field's update (a status attribute that is missing, or a subscriber
\* that raises) stops neither the later updates nor the zone-tracker update,
\* and nothing is raised to the caller: the bypass update fires its event,
\* the battery and fire updates store their flags where the attribute
\* exists, and the tracker is updated once.
C36_FieldFailureIsContained ==
  (op.kind = "apply" /\ msg.family = "panel" /\ ~ignore_message_states) =>
    /\ raised = "none"
    /\ tracker_updates = 1
    /\ Fired("on_bypass")
    /\ "_battery" \in pre_attrs => st["_battery"] = msg.battery_low
    /\ "_fire" \in pre_attrs => st["_fire"] = msg.fire_alarm

\* on a decoder as constructed, where the updaters of the stored fields
\* raise AttributeError, a subscriber of on_bypass raised during the bypass
\* update as well; the battery, fire and tracker updates ran all the same
C36_Witness ==
  /\ op.kind = "apply"
  /\ msg.family = "panel"
  /\ ~ignore_message_states
  /\ attrs = {}
  /\ \E i \in 1..Len(calls) :
       calls[i].handler = "user_raises" /\ calls[i].event = "on_bypass"
  /\ delegated = <<"update_armed_ready_status", "update_power_status",
                   "update_chime_status", "update_alarm_status",
                   "update_zone_bypass_status", "update_battery_status",
                   "update_fire_status", "update_zone_tracker">>
  /\ tracker_updates = 1

\* the event that announces a message of the family of m
FamilyEventOf(m) ==
  CASE m.family = "panel" -> "on_message"
    [] m.family = "expander" -> "on_expander_message"
    [] m.family = "rf" -> "on_rfx_message"
    [] m.family = "lrr" -> "on_lrr_message"
    [] m.family = "aui" -> "on_aui_message"
    [] OTHER -> "none"

\* how many times the last operation fired the event
TimesFired(name) == Cardinality({i \in 1..Len(fired) : fired[i].name = name})

\* C37: a line that decodes fires the event of its family exactly once and
\* no other family event: on_message once for a panel line and never for a
\* line of another family, on_expander_message, on_rfx_message,
\* on_lrr_message or on_aui_message once for a line of that family.
C37_OneFamilyEventPerLine ==
  (op.kind \in {"handle_message", "on_read"} /\ op.decoded) =>
    \A e \in FamilyEvents : TimesFired(e) = IF e = FamilyEventOf(msg) THEN 1 ELSE 0

\* C39: whatever panel messages update_armed_ready_status has applied to a
\* session that started from the defaults, the stored armed_away and
\* armed_home are not both true.
C39_NeverArmedBothWays ==
  ~(st["_armed_away"] /\ st["_armed_home"])

\* a message carrying both AWAY and STAY reached a session stored as armed
\* away: the session is now armed home and no longer armed away
C39_Witness ==
  /\ op.kind = "apply"
  /\ msg.family = "panel"
  /\ msg.armed_away /\ msg.armed_home
  /\ pre_st["_armed_away"]
  /\ st["_armed_home"]
  /\ ~st["_armed_away"]

\* the status a handler found stored agrees with the event it was called for
SeenAgrees(call) ==
  LET s == call.seen
      flag == call.arg = "True"
  IN  CASE call.event = "on_ready_changed" -> s["_ready"] = flag
        [] call.event = "on_power_changed" -> s["_ac_power"] = flag
        [] call.event = "on_low_battery" -> s["_battery"] = flag
        [] call.event = "on_fire" -> s["_fire"] = flag
        [] call.event = "on_panic" -> s["_panic"] = flag
        [] call.event = "on_chime_changed" -> s["_chime_on"] = msg.chime_on
        [] call.event = "on_alarm" -> s["_alarm_occurring"]
        [] call.event = "on_alarm_restored" -> ~s["_alarm_occurring"]
        [] call.event = "on_arm" ->
             IF flag THEN s["_armed_home"] /\ ~s["_armed_away"]
             ELSE s["_armed_away"] /\ ~s["_armed_home"]
        [] call.event = "on_disarm" -> ~s["_armed_away"] /\ ~s["_armed_home"]
        [] call.event = "on_bypass" -> (bypass_status # {}) = flag
        [] call.event = "on_relay_changed" -> relay_status # {}
        [] OTHER -> TRUE

\* C40: a handler called for a status event finds the field already stored
\* with the value of the event (for on_bypass a bypass map that holds a
\* bypassed zone exactly if the event says so, for on_relay_changed a relay
\* map that holds the relay), and the field keeps that value after the
\* operation whether or not the handler raised.
C40_StoredBeforeFired ==
  \A i \in 1..Len(calls) :
    calls[i].handler \in UserHandlers =>
      /\ SeenAgrees(calls[i])
      /\ SeenAgrees([calls[i] EXCEPT !.seen = st])

====
